---- MODULE Spec2Model ----
(***************************************************************************)
(* Verification model of the chronoro-sprinklr job.                        *)
(*                                                                         *)
(*   main.py             run(): partitioning, shard publishing, merge      *)
(*                       coordinator, enrichment; _throttle_genai and      *)
(*                       _genai_with_backoff_call (rate gate + backoff);   *)
(*                       classify_and_extract_article;                     *)
(*                       _translate_to_ja_with_gemini                      *)
(*   sprinklr_client.py  spr, _load_tokens / _save_tokens / _refresh       *)
(*   function_api_payload_from_sprinklr.py                                 *)
(*                       run_all, run_with_topic_batches, dedup_rows,      *)
(*                       fetch_sprinklr_rows                               *)
(*                                                                         *)
(* The specifications share the module, one per component:                 *)
(*   SpecPartition  the slice arithmetic of run()                          *)
(*   SpecTokens     the credential store under concurrent refreshers      *)
(*   SpecGenai      the rate gate and the backoff loop, worker threads     *)
(*   SpecRun        the tasks of one execution and the durable store       *)
(*   SpecRunLive    SpecRun with an advancing clock and a coordinator      *)
(*                  whose own steps are taken (weak fairness)              *)
(*   SpecEnrich     extraction and translation of one task's rows          *)
(*   SpecTranslate  one translation call over its model candidates         *)
(*   SpecFetch      paging and topic batching of one fetch                 *)
(*   SpecDedup      dedup_rows on bounded row lists                        *)
(*   SpecClassify   the line filter of the article extraction              *)
(***************************************************************************)
EXTENDS Integers, Sequences, FiniteSets, TLC

VARIABLES
    \* ---- SpecPartition ----
    envTaskCount,   \* TASK_COUNT as found in the environment (may be 0)
    total,          \* len(df) after the official-degree filter
    slice,          \* slice[i]: the <<start_i, end_i>> task i computed, or <<>>
    \* ---- SpecTokens ----
    tokStore,       \* the token object in GCS: [gen |-> generation, rec |-> JSON dict]
    issued,         \* number of token pairs the identity provider has issued
    tpc,            \* tpc[p]: where process p stands in spr / _refresh / _save_tokens
    toks,           \* toks[p]: the dict spr holds (with its "_gen" stamp)
    sv,             \* sv[p]: locals of _save_tokens (data, prev_gen, payload, ...)
    writes,         \* writes[p]: upload_from_string calls of p's current _save_tokens
    \* ---- SpecGenai ----
    gLock,          \* holder of _GENAI_LOCK, or "free"
    gAge,           \* seconds since _GENAI_LAST_TS, capped at the interval
    callAge,        \* seconds since the last invocation of a wrapped call, capped
    gpc,            \* gpc[t]: where worker thread t stands in _genai_with_backoff_call
    attempt,        \* attempt[t]: the loop variable of range(7)
    delay,          \* delay[t]: the backoff delay in seconds
    sleepLeft,      \* sleepLeft[t]: seconds left of t's current time.sleep
    ncalls,         \* ncalls[t]: invocations of call() in t's current execution
    ngates,         \* ngates[t]: completed _throttle_genai passages, likewise
    nsleeps,        \* nsleeps[t]: backoff sleeps, likewise
    lastErr,        \* lastErr[t]: str(e) of the error t's latest call() raised
    stampGap,       \* seconds between the two most recent _GENAI_LAST_TS stamps
    callGap,        \* seconds between the two most recent invocations
    \* ---- SpecRun ----
    rows,           \* rows[r]: the title cell of row r of the filtered df
    rpc,            \* rpc[i]: where task i stands in run()
    retries,        \* retries[i]: restarts of task i by the job runner
    objects,        \* the bucket: object key -> CSV content, created objects only
    waitLeft,       \* polls left before the coordinator's deadline
    napLeft,        \* what is left of the coordinator's time.sleep(5), in polls
    found,          \* the coordinator's list `found`
    polled,         \* the coordinator has listed the parts in its current wait
    warned,         \* the coordinator printed "[WARN] Only n/m shards found"
    finalLocal,     \* the rows of the coordinator's local final CSV
    notified,       \* number of Slack posts made
    \* ---- SpecEnrich ----
    dfLen,          \* len(df) of the task's slice
    epc,            \* the main thread's place in the block of line 1127
    futA,           \* futA[i]: the Phase 1 future of row i, its argument the
                    \* row's `message` (blank or not) until it is collected
    article,        \* results_article
    sources,        \* article_sources
    todo,           \* what is left of empty_idxs
    futB,           \* futB[m][i]: the Phase 2 future of row i in futs_art / futs_ttl
    jaArticle,      \* translated_article
    jaTitle,        \* translated_title
    exFailed,       \* an extraction call has raised
    scraped,        \* rows for which the scraper returned text
    trFailed,       \* a translation has failed on every model candidate
    \* ---- SpecTranslate ----
    trText,         \* the argument `text` of _translate_to_ja_with_gemini
    trRegion,       \* REGION
    trpc,           \* where the call stands
    trCand,         \* index of the candidate tried next
    trOut,          \* the value returned
    trCalls,        \* generate_content calls made
    trStamps,       \* times _GENAI_LAST_TS has been written
    \* ---- SpecTokens, the requests of spr ----
    req,            \* req[p]: what p's current spr call read and sent
    \* ---- SpecFetch ----
    fetch,          \* the locals of fetch_sprinklr_rows, run_with_topic_batches
                    \* and run_all (one record, a field per local)
    \* ---- SpecDedup ----
    dedup,          \* a row list, dedup_rows of it, and dedup_rows of that
    \* ---- SpecClassify ----
    cls             \* the model's answer, the title, and the extracted article

varsPartition == <<envTaskCount, total, slice>>
varsTokens == <<tokStore, issued, tpc, toks, sv, writes, req>>

varsGenai == <<gLock, gAge, callAge, gpc, attempt, delay, sleepLeft, ncalls,
               ngates, nsleeps, lastErr, stampGap, callGap>>

varsRun == <<rows, rpc, retries, objects, waitLeft, napLeft, found, polled,
             warned, finalLocal, notified>>

vars == <<envTaskCount, total, slice, tokStore, issued, tpc, toks, sv, writes,
          gLock, gAge, callAge, gpc, attempt, delay, sleepLeft, ncalls,
          ngates, nsleeps, lastErr, stampGap, callGap,
          rows, rpc, retries, objects, waitLeft, napLeft, found, polled,
          warned, finalLocal, notified,
          dfLen, epc, futA, article, sources, todo, futB,
          jaArticle, jaTitle, exFailed, scraped, trFailed,
          trText, trRegion, trpc, trCand, trOut, trCalls, trStamps,
          req, fetch, dedup, cls>>

varsTranslate == <<trText, trRegion, trpc, trCand, trOut, trCalls, trStamps>>

varsEnrich == <<dfLen, epc, futA, article, sources, todo, futB,
                jaArticle, jaTitle, exFailed, scraped, trFailed>>

varsFetch == <<fetch>>
varsDedup == <<dedup>>
varsClassify == <<cls>>

\* what the actions of one component leave alone: the other components
offPartition == <<varsTokens, varsGenai, varsRun, varsEnrich, varsTranslate,
                  varsFetch, varsDedup, varsClassify>>
offTokens == <<varsPartition, varsGenai, varsRun, varsEnrich, varsTranslate,
               varsFetch, varsDedup, varsClassify>>
offGenai == <<varsPartition, varsTokens, varsRun, varsEnrich, varsTranslate,
              varsFetch, varsDedup, varsClassify>>
offRun == <<varsTokens, varsGenai, varsEnrich, varsTranslate,
            varsFetch, varsDedup, varsClassify>>
offEnrich == <<varsPartition, varsTokens, varsGenai, varsRun, varsTranslate,
               varsFetch, varsDedup, varsClassify>>
offTranslate == <<varsPartition, varsTokens, varsGenai, varsRun, varsEnrich,
                  varsFetch, varsDedup, varsClassify>>
offFetch == <<varsPartition, varsTokens, varsGenai, varsRun, varsEnrich,
              varsTranslate, varsDedup, varsClassify>>
offDedup == <<varsPartition, varsTokens, varsGenai, varsRun, varsEnrich,
              varsTranslate, varsFetch, varsClassify>>
offClassify == <<varsPartition, varsTokens, varsGenai, varsRun, varsEnrich,
                 varsTranslate, varsFetch, varsDedup>>

(***************************************************************************)
(* Partition assigner: main.py run(), lines 1109-1115                      *)
(***************************************************************************)
MaxTotal == 7
MaxTasks == 3

Max(a, b) == IF a >= b THEN a ELSE b
Min(a, b) == IF a <= b THEN a ELSE b

\* _get_task_index_count: cnt = max(1, int(TASK_COUNT))
TaskCountOf(cnt) == Max(1, cnt)

\* start_i = (total * task_index) // task_count
StartI_ceil(tot, i, cnt) == (tot * i + cnt - 1) \div cnt
StartI(tot, i, cnt) == (tot * i) \div cnt

\* end_i = (total * (task_index + 1)) // task_count
EndI_chunks(tot, i, cnt) == (tot \div cnt) * (i + 1)
EndI(tot, i, cnt) == (tot * (i + 1)) \div cnt

\* df.iloc[start_i:end_i]: the row offsets of the slice
SliceRows(s) == {r \in 0..(MaxTotal + 1) : s[1] <= r /\ r < s[2]}

taskCount == TaskCountOf(envTaskCount)
Tasks == 0..(taskCount - 1)

\* before line 1110 no task has a slice
NoSlices(cnt) == [i \in 0..(TaskCountOf(cnt) - 1) |-> <<>>]

\* One task executes lines 1110-1114.
Shard(i) ==
    /\ slice[i] = <<>>
    /\ slice' = [slice EXCEPT ![i] =
                    <<StartI(total, i, taskCount), EndI(total, i, taskCount)>>]
    /\ UNCHANGED <<envTaskCount, total>>
    /\ UNCHANGED offPartition

NextPartition == \E i \in Tasks : Shard(i)

AllSharded == \A i \in Tasks : slice[i] # <<>>

\* C1: once every task 0..taskCount-1 has computed its slice, every row
\* offset in [0,total) lies in exactly one slice, no slice reaches outside
\* [0,total), and for total = 0 every slice is empty; before that, the slices
\* computed so far are pairwise disjoint.
C1_SlicesTile ==
    /\ \A i \in Tasks : slice[i] # <<>> =>
          /\ 0 <= slice[i][1] /\ slice[i][1] <= slice[i][2] /\ slice[i][2] <= total
          /\ (total = 0 => SliceRows(slice[i]) = {})
    /\ \A i, j \in Tasks :
          (i # j /\ slice[i] # <<>> /\ slice[j] # <<>>) =>
              SliceRows(slice[i]) \cap SliceRows(slice[j]) = {}
    /\ AllSharded =>
          \A r \in 0..(total - 1) :
              Cardinality({i \in Tasks : r \in SliceRows(slice[i])}) = 1

C1_Witness ==
    /\ AllSharded
    /\ taskCount = 3
    /\ total = 2
    /\ \E i \in Tasks : SliceRows(slice[i]) = {}

\* C2: task i's slice is [floor(total*i/taskCount), floor(total*(i+1)/taskCount));
\* total = 7 over 3 tasks gives [0,2), [2,4), [4,7); a single task gets [0,total).
C2_SliceIsFloor ==
    /\ \A i \in Tasks : slice[i] # <<>> =>
          /\ slice[i][1] * taskCount <= total * i
          /\ total * i < (slice[i][1] + 1) * taskCount
          /\ slice[i][2] * taskCount <= total * (i + 1)
          /\ total * (i + 1) < (slice[i][2] + 1) * taskCount
    /\ (total = 7 /\ taskCount = 3) =>
          /\ slice[0] \in {<<>>, <<0, 2>>}
          /\ slice[1] \in {<<>>, <<2, 4>>}
          /\ slice[2] \in {<<>>, <<4, 7>>}
    /\ taskCount = 1 => slice[0] \in {<<>>, <<0, total>>}

C2_Witness ==
    /\ total = 7 /\ taskCount = 3
    /\ slice = [i \in 0..2 |-> IF i = 0 THEN <<0, 2>>
                               ELSE IF i = 1 THEN <<2, 4>> ELSE <<4, 7>>]

(***************************************************************************)
(* Credential store: sprinklr_client.py, GCS mode (TOK_PATH is gs://...)   *)
(***************************************************************************)
MaxExchanges == 4
SaveAttempts == 3

\* two sibling tasks of one execution, each calling spr again and again
Procs == {"A", "B"}

\* dict.update(u): u's keys win, d's other keys stay
DictUpdate(d, u) ==
    [k \in (DOMAIN d) \cup (DOMAIN u) |-> IF k \in DOMAIN u THEN u[k] ELSE d[k]]

\* data = dict(t); data.pop("_gen")
WithoutGen(t) == [k \in (DOMAIN t) \ {"_gen"} |-> t[k]]

\* the JSON object with no key
EmptyDict == [k \in {} |-> 0]

\* latest.update(data), line 110
SaveMerge_reversed(latest, data) == DictUpdate(data, latest)
SaveMerge_accessOnly(latest, data) ==
    DictUpdate(DictUpdate(latest, data),
               [k \in {"refresh_token"} \cap DOMAIN latest |-> latest[k]])
SaveMerge(latest, data) == DictUpdate(latest, data)

\* upload_from_string(..., if_generation_match=prev_gen): the store takes the
\* write only when the object's generation is prev_gen (always, without one).
\* Generations start at 1; 0 stands for Python's None.
WriteAccepted_always(prev_gen, gen) == TRUE
WriteAccepted(prev_gen, gen) == prev_gen = 0 \/ prev_gen = gen

\* the response of POST /oauth/token: a fresh pair, with or without "scope"
TokenResponse(n, withScope) ==
    IF withScope
    THEN [k \in {"access_token", "refresh_token", "scope"} |-> n]
    ELSE [k \in {"access_token", "refresh_token"} |-> n]

NoSave == [data |-> EmptyDict, prev_gen |-> 0, payload |-> EmptyDict,
           attempt |-> 0, bgen |-> 0, latest |-> EmptyDict, stale |-> FALSE]

\* no access token (the tokens issued are numbered from 0)
NoToken == -1

\* what an spr call has read and sent: the access token its _load_tokens
\* read, the one its first request carried, and whether the response to
\* that request was a 401 or a 403; with them the number of API requests
\* the call has made, the number of its _refresh calls, whether the token
\* exchange of _refresh failed, and the access token its retry carried
NoRequest == [read |-> NoToken, auth |-> NoToken, denied |-> FALSE,
              nreq |-> 0, nref |-> 0, failed |-> FALSE, reauth |-> NoToken]

\* the token file as deployed: one pair, generation 1
TokStore0 == [gen |-> 1, rec |-> [k \in {"access_token", "refresh_token"} |-> 0]]

\* spr line 170, _load_tokens lines 69-72: blob.reload(); gen = blob.generation.
\* Every spr call, the first as any later one, starts here with fresh locals.
LoadReload(p) ==
    /\ tpc[p] \in {"idle", "returned", "http_error", "load_notfound", "save_failed"}
    /\ tpc' = [tpc EXCEPT ![p] = "load_download"]
    /\ sv' = [sv EXCEPT ![p] = [NoSave EXCEPT !.bgen = tokStore.gen]]
    /\ toks' = [toks EXCEPT ![p] = EmptyDict]
    /\ writes' = [writes EXCEPT ![p] = 0]
    /\ req' = [req EXCEPT ![p] = NoRequest]
    /\ UNCHANGED <<tokStore, issued>>
    /\ UNCHANGED offTokens

\* _load_tokens lines 73-78: download, json.loads, t["_gen"] = int(gen).
\* A download that follows an overwrite finds the reloaded generation gone
\* (NotFound -> FileNotFoundError) or reads the newer content.
LoadDownload(p) ==
    /\ tpc[p] = "load_download"
    /\ \/ /\ toks' = [toks EXCEPT ![p] =
                         DictUpdate(tokStore.rec, [k \in {"_gen"} |-> sv[p].bgen])]
          /\ req' = [req EXCEPT ![p].read = tokStore.rec["access_token"]]
          /\ tpc' = [tpc EXCEPT ![p] = "request"]
       \/ /\ sv[p].bgen # tokStore.gen
          /\ tpc' = [tpc EXCEPT ![p] = "load_notfound"]
          /\ UNCHANGED <<toks, req>>
    /\ UNCHANGED <<tokStore, issued, sv, writes>>
    /\ UNCHANGED offTokens

\* spr lines 172-173: "Authorization": f"Bearer {toks['access_token']}", with
\* toks the record line 170 has just loaded (and not, say, the record as it
\* was when the module was imported)
AuthToken_atImport(t) == TokStore0.rec["access_token"]
AuthToken(t) == t["access_token"]

\* spr line 225: r.status_code in (401, 403) and "refresh_token" in toks
NeedsRefresh_anyError(status, t) == status >= 400 /\ "refresh_token" \in DOMAIN t
NeedsRefresh(status, t) == status \in {401, 403} /\ "refresh_token" \in DOMAIN t

\* spr lines 194-254: the first request; 401/403 with a refresh token leads
\* to _refresh, any other error status to raise_for_status
Request(p) ==
    /\ tpc[p] = "request"
    /\ \E status \in {200, 401, 403, 500} :
          /\ tpc' = [tpc EXCEPT ![p] =
                        IF NeedsRefresh(status, toks[p]) THEN "refresh"
                        ELSE IF status = 200 THEN "returned"
                        ELSE "http_error"]
          /\ req' = [req EXCEPT ![p].auth = AuthToken(toks[p]),
                                ![p].denied = status \in {401, 403},
                                ![p].nreq = @ + 1]
    /\ UNCHANGED <<tokStore, issued, toks, sv, writes>>
    /\ UNCHANGED offTokens

\* _refresh lines 132-148: raise_for_status re-raises the error of a failed
\* exchange, which leaves _refresh and spr; else the tokens are saved
AfterExchange_retryAnyway(ok) == IF ok THEN "save_write" ELSE "retry_request"
AfterExchange(ok) == IF ok THEN "save_write" ELSE "http_error"

\* _refresh lines 121-147 and _save_tokens lines 85-87: the exchange, then
\* toks.update(new); an HTTP error of the exchange is re-raised
Refresh(p) ==
    /\ tpc[p] = "refresh"
    /\ \/ /\ issued < MaxExchanges
          /\ \E withScope \in BOOLEAN :
               LET t == DictUpdate(toks[p], TokenResponse(issued + 1, withScope))
               IN /\ toks' = [toks EXCEPT ![p] = t]
                  /\ sv' = [sv EXCEPT ![p] =
                               [data |-> WithoutGen(t), prev_gen |-> t["_gen"],
                                payload |-> WithoutGen(t), attempt |-> 0,
                                bgen |-> 0, latest |-> EmptyDict,
                                stale |-> t["_gen"] < tokStore.gen]]
          /\ issued' = issued + 1
          /\ req' = [req EXCEPT ![p].nref = @ + 1]
          /\ tpc' = [tpc EXCEPT ![p] = AfterExchange(TRUE)]
       \/ /\ tpc' = [tpc EXCEPT ![p] = AfterExchange(FALSE)]
          /\ req' = [req EXCEPT ![p].nref = @ + 1, ![p].failed = TRUE]
          /\ UNCHANGED <<issued, toks, sv>>
    /\ UNCHANGED <<tokStore, writes>>
    /\ UNCHANGED offTokens

\* _save_tokens lines 93-98: one conditional write
SaveWrite(p) ==
    /\ tpc[p] = "save_write"
    /\ writes' = [writes EXCEPT ![p] = @ + 1]
    /\ IF WriteAccepted(sv[p].prev_gen, tokStore.gen)
       THEN /\ tokStore' = [gen |-> tokStore.gen + 1, rec |-> sv[p].payload]
            /\ tpc' = [tpc EXCEPT ![p] = "save_written"]
       ELSE /\ tpc' = [tpc EXCEPT ![p] = "save_conflict"]
            /\ UNCHANGED tokStore
    /\ UNCHANGED <<issued, toks, sv>>
    /\ UNCHANGED req
    /\ UNCHANGED offTokens

\* _save_tokens lines 99-102: blob.reload(); t["_gen"] = blob.generation; return
SaveDone(p) ==
    /\ tpc[p] = "save_written"
    /\ toks' = [toks EXCEPT ![p] =
                   DictUpdate(@, [k \in {"_gen"} |-> tokStore.gen])]
    /\ sv' = [sv EXCEPT ![p].bgen = tokStore.gen]
    /\ tpc' = [tpc EXCEPT ![p] = "retry_request"]
    /\ UNCHANGED <<tokStore, issued, writes>>
    /\ UNCHANGED req
    /\ UNCHANGED offTokens

\* _save_tokens line 104: except PreconditionFailed: blob.reload()
SaveConflictReload(p) ==
    /\ tpc[p] = "save_conflict"
    /\ sv' = [sv EXCEPT ![p].bgen = tokStore.gen]
    /\ tpc' = [tpc EXCEPT ![p] = "save_conflict_download"]
    /\ UNCHANGED <<tokStore, issued, toks, writes>>
    /\ UNCHANGED req
    /\ UNCHANGED offTokens

\* _save_tokens lines 105-113: download latest (NotFound -> {}), take the
\* reloaded generation, merge, sleep, next attempt; after the third, raise
SaveConflictMerge(p) ==
    /\ tpc[p] = "save_conflict_download"
    /\ \E latest \in {tokStore.rec} \cup
                     (IF sv[p].bgen # tokStore.gen THEN {EmptyDict} ELSE {}) :
          sv' = [sv EXCEPT ![p] =
                    [@ EXCEPT !.latest = latest,
                              !.prev_gen = sv[p].bgen,
                              !.payload = SaveMerge(latest, sv[p].data),
                              !.attempt = sv[p].attempt + 1]]
    /\ tpc' = [tpc EXCEPT ![p] =
                  IF sv[p].attempt + 1 < SaveAttempts THEN "save_write"
                  ELSE "save_failed"]
    /\ UNCHANGED <<tokStore, issued, toks, writes>>
    /\ UNCHANGED req
    /\ UNCHANGED offTokens

\* spr lines 237-254: raise_for_status after the retry, then the return
AfterRetry_refreshAgain(status) == IF status = 200 THEN "returned" ELSE "refresh"
AfterRetry(status) == IF status = 200 THEN "returned" ELSE "http_error"

\* spr lines 234-254: the one retry of the request with the new access token
RetryRequest(p) ==
    /\ tpc[p] = "retry_request"
    /\ \E status \in {200, 401} :
          tpc' = [tpc EXCEPT ![p] = AfterRetry(status)]
    /\ req' = [req EXCEPT ![p].nreq = @ + 1,
                          ![p].reauth = toks[p]["access_token"]]
    /\ UNCHANGED <<tokStore, issued, toks, sv, writes>>
    /\ UNCHANGED offTokens

NextTokens ==
    \E p \in Procs :
        \/ LoadReload(p)
        \/ LoadDownload(p)
        \/ Request(p)
        \/ Refresh(p)
        \/ SaveWrite(p)
        \/ SaveDone(p)
        \/ SaveConflictReload(p)
        \/ SaveConflictMerge(p)
        \/ RetryRequest(p)


\* C3 (as amended): every conditional write that _save_tokens attempts with
\* a generation other than the store's current one is rejected with a
\* precondition failure and leaves the stored record and its generation as
\* they were.
C3_StaleWriteRejected ==
    [][\A p \in Procs :
          (tpc[p] = "save_write" /\ tpc'[p] # "save_write"
             /\ sv[p].prev_gen # tokStore.gen)
          => (tokStore' = tokStore /\ tpc'[p] = "save_conflict")]_vars

C3_Witness ==
    \E p \in Procs :
        /\ tpc[p] = "save_conflict"
        /\ sv[p].attempt = 0
        /\ sv[p].prev_gen < tokStore.gen
        /\ tokStore.rec["access_token"] # sv[p].data["access_token"]

\* C3 (as claimed): a _save_tokens call entered with a record whose _gen is
\* older than the stored generation never ends with its write accepted.
C3_StaleSaveAlwaysFails ==
    \A p \in Procs : ~(sv[p].stale /\ tpc[p] = "save_written")

\* C4: _save_tokens makes at most 3 writes; every retry carries the reloaded
\* generation, and a retry the store can accept carries the stored record
\* overlaid with the caller's new tokens; the third conflict ends the call
\* with the error, with no further write.
C4_ConflictRetryBounded ==
    \A p \in Procs :
        /\ writes[p] <= 3
        /\ (tpc[p] = "save_write" /\ sv[p].attempt > 0) =>
              /\ sv[p].prev_gen = sv[p].bgen
              /\ sv[p].prev_gen = tokStore.gen =>
                    /\ DOMAIN sv[p].payload = (DOMAIN tokStore.rec) \cup (DOMAIN sv[p].data)
                    /\ \A k \in DOMAIN sv[p].data : sv[p].payload[k] = sv[p].data[k]
                    /\ \A k \in (DOMAIN tokStore.rec) \ (DOMAIN sv[p].data) :
                          sv[p].payload[k] = tokStore.rec[k]
        /\ tpc[p] = "save_failed" => (writes[p] = 3 /\ sv[p].attempt = 3)
        /\ (writes[p] = 3 /\ tpc[p] # "save_write") =>
              tpc[p] \in {"save_written", "save_conflict", "save_conflict_download",
                          "save_failed", "retry_request", "returned", "http_error"}

C4_Witness ==
    \E p \in Procs :
        /\ tpc[p] = "save_failed"
        /\ writes[p] = 3
        /\ "scope" \in (DOMAIN sv[p].payload) \ (DOMAIN sv[p].data)

\* the places of spr after its first request
AfterFirstRequest ==
    {"refresh", "save_write", "save_written", "save_conflict",
     "save_conflict_download", "save_failed", "retry_request", "returned",
     "http_error"}

\* C29: every spr call has loaded the token record when it makes its first
\* request, and that request carries the access token this very load read,
\* not one read by an earlier call.
C29_SendsTokenJustLoaded ==
    \A p \in Procs :
        /\ tpc[p] = "request" => (req[p].read # NoToken /\ req[p].auth = NoToken)
        /\ tpc[p] \in {"idle", "load_download", "load_notfound"} =>
              req[p].auth = NoToken
        /\ (tpc[p] \in AfterFirstRequest \/ req[p].auth # NoToken) =>
              /\ req[p].read # NoToken
              /\ req[p].auth = req[p].read

C29_Witness ==
    \E p \in Procs :
        /\ tpc[p] = "returned"
        /\ writes[p] = 0
        /\ req[p].auth # TokStore0.rec["access_token"]
        /\ req[p].auth = tokStore.rec["access_token"]

\* C30: the stored record and its generation change only by a write of
\* _save_tokens called from _refresh, which follows the token exchange with
\* no request in between; an spr call whose first response is neither 401
\* nor 403 ends with no write attempted, the store as that call left it
\* untouched.
C30_StoreChangesOnlyInRefresh ==
    /\ [](\A p \in Procs :
            /\ (writes[p] > 0 \/ tpc[p] \in {"refresh", "save_write", "save_written",
                                              "save_conflict", "save_conflict_download",
                                              "save_failed", "retry_request"}) =>
                  req[p].denied
            /\ tpc[p] = "retry_request" => writes[p] >= 1)
    /\ [][/\ tokStore' # tokStore =>
              \E p \in Procs :
                  /\ tpc[p] = "save_write" /\ tpc'[p] = "save_written"
                  /\ req[p].denied
                  /\ tokStore' = [gen |-> tokStore.gen + 1, rec |-> sv[p].payload]
          /\ \A p \in Procs :
                (tpc[p] = "request" /\ tpc'[p] # "request"
                   /\ ~req'[p].denied) =>
                    /\ tokStore' = tokStore
                    /\ tpc'[p] \in {"returned", "http_error"}]_vars

C30_Witness ==
    \E p, q \in Procs :
        /\ tpc[p] = "http_error" /\ ~req[p].denied /\ writes[p] = 0
        /\ tpc[q] = "retry_request" /\ req[q].denied
        /\ tokStore.gen = 2
        /\ tokStore.rec["access_token"] # req[p].auth

\* C31: one spr call makes at most two API requests and calls _refresh at
\* most once; a second request is made only after a 401/403 answer to the
\* first, one _refresh and its save, and carries the access token that
\* _refresh obtained; when the retry fails too the call ends with the HTTP
\* error, with no second _refresh.
C31_OneRefreshOneRetry ==
    \A p \in Procs :
        /\ req[p].nreq <= 2
        /\ req[p].nref <= 1
        /\ req[p].nref = 1 => (req[p].denied /\ req[p].nreq >= 1)
        /\ req[p].nreq = 2 =>
              /\ req[p].denied
              /\ req[p].nref = 1
              /\ writes[p] >= 1
              /\ req[p].reauth = toks[p]["access_token"]
              /\ req[p].reauth # req[p].auth
              /\ tpc[p] \in {"returned", "http_error"}

C31_Witness ==
    \E p \in Procs :
        /\ tpc[p] = "http_error"
        /\ req[p].nreq = 2
        /\ req[p].nref = 1
        /\ tokStore.rec["access_token"] = req[p].reauth

\* C36: when the token exchange of _refresh fails, the spr call ends with
\* that error: it makes no write to the store and no second request, and the
\* failing step leaves the stored record and its generation as they were.
C36_FailedExchangeIsFatal ==
    /\ [](\A p \in Procs :
            req[p].failed =>
                (tpc[p] = "http_error" /\ writes[p] = 0 /\ req[p].nreq = 1))
    /\ [][\A p \in Procs :
            (~req[p].failed /\ req'[p].failed) =>
                (tokStore' = tokStore /\ issued' = issued /\ toks' = toks)]_vars

C36_Witness ==
    \E p, q \in Procs :
        /\ req[p].failed
        /\ tpc[p] = "http_error"
        /\ tpc[q] = "returned" /\ req[q].nreq = 2
        /\ tokStore.rec["access_token"] = req[q].reauth

\* C38: whatever the interleaving of the refreshing processes, conflicts and
\* merged retries included, the access token and the refresh token of the
\* stored record come from one and the same exchange.
C38_StoredPairIsOneExchange ==
    /\ tokStore.rec["access_token"] = tokStore.rec["refresh_token"]
    /\ \A p \in Procs :
          tpc[p] = "save_write" =>
              sv[p].payload["access_token"] = sv[p].payload["refresh_token"]

C38_Witness ==
    \E p \in Procs :
        /\ tpc[p] = "save_written"
        /\ sv[p].attempt > 0
        /\ sv[p].latest # EmptyDict
        /\ sv[p].latest["access_token"] # tokStore.rec["access_token"]
        /\ tokStore.rec["access_token"] = sv[p].data["access_token"]

(***************************************************************************)
(* Rate-gated call executor: main.py lines 88-121.  Time is counted in     *)
(* whole seconds; ages are kept relative and capped at the interval.       *)
(***************************************************************************)
GENAI_RATE_INTERVAL_SEC == 3
GenaiAttempts == 7
BackoffStart == 1
BackoffCap == 20

\* the threads of one ThreadPoolExecutor
Threads == {"w1", "w2"}

\* what the wrapped call can raise, as str(e)
Errors == {"429 RESOURCE_EXHAUSTED", "{\"code\": 429}", "Quota exceeded",
           "429 Too Many Requests", "500 INTERNAL"}

\* the fragments line 115 looks for that occur in s (quota: in s.lower())
Fragments(s) ==
    CASE s = "429 RESOURCE_EXHAUSTED" -> {"RESOURCE_EXHAUSTED"}
      [] s = "{\"code\": 429}" -> {"\"code\": 429", " 429"}
      [] s = "Quota exceeded" -> {"quota"}
      [] OTHER -> {}

\* line 115: retry only for clear capacity/limit signals
IsCapacitySignal_any(s) == TRUE
IsCapacitySignal(s) ==
    Fragments(s) \cap {"RESOURCE_EXHAUSTED", " 429", "\"code\": 429", "quota"} # {}

\* line 99: wait = (_GENAI_LAST_TS + GENAI_RATE_INTERVAL_SEC) - now
GateWait_none(age) == 0
GateWait(age) == GENAI_RATE_INTERVAL_SEC - age

\* line 118: delay = min(delay * 2, 20.0)
NextDelay(d) == Min(d * 2, BackoffCap)

\* ages and gaps are capped at the interval: more makes no difference
Capped(x) == Min(x, GENAI_RATE_INTERVAL_SEC)

\* line 108: for attempt in range(7)
AttemptsLeft_inclusive(a) == a <= GenaiAttempts
AttemptsLeft(a) == a < GenaiAttempts

\* lines 107-109: a worker starts _genai_with_backoff_call (its first, or
\* its next one after the former returned or raised)
GenaiStart(t) ==
    /\ gpc[t] \in {"idle", "returned", "raised", "exhausted"}
    /\ gpc' = [gpc EXCEPT ![t] = "throttle"]
    /\ attempt' = [attempt EXCEPT ![t] = 0]
    /\ delay' = [delay EXCEPT ![t] = BackoffStart]
    /\ ncalls' = [ncalls EXCEPT ![t] = 0]
    /\ ngates' = [ngates EXCEPT ![t] = 0]
    /\ nsleeps' = [nsleeps EXCEPT ![t] = 0]
    /\ lastErr' = [lastErr EXCEPT ![t] = ""]
    /\ UNCHANGED <<gLock, gAge, callAge, sleepLeft, stampGap, callGap>>
    /\ UNCHANGED offGenai

\* _throttle_genai lines 97-101: take the lock, read the clock, start the wait
GateEnter(t) ==
    /\ gpc[t] = "throttle"
    /\ gLock = "free"
    /\ gLock' = t
    /\ sleepLeft' = [sleepLeft EXCEPT ![t] = Max(0, GateWait(gAge))]
    /\ gpc' = [gpc EXCEPT ![t] = "gate_sleep"]
    /\ UNCHANGED <<gAge, callAge, attempt, delay, ncalls, ngates, nsleeps,
                   lastErr, stampGap, callGap>>
    /\ UNCHANGED offGenai

\* _throttle_genai line 102: the sleep is over; stamp and release the lock
GateStamp(t) ==
    /\ gpc[t] = "gate_sleep"
    /\ sleepLeft[t] = 0
    /\ stampGap' = gAge
    /\ gAge' = 0
    /\ gLock' = "free"
    /\ ngates' = [ngates EXCEPT ![t] = @ + 1]
    /\ gpc' = [gpc EXCEPT ![t] = "call"]
    /\ UNCHANGED <<callAge, attempt, delay, sleepLeft, ncalls, nsleeps,
                   lastErr, callGap>>
    /\ UNCHANGED offGenai

\* lines 110-120: call(); return its result, or sleep delay + jitter and
\* double the delay on a capacity signal, or re-raise
GenaiCall(t) ==
    /\ gpc[t] = "call"
    /\ ncalls' = [ncalls EXCEPT ![t] = @ + 1]
    /\ callGap' = callAge
    /\ callAge' = 0
    /\ \/ /\ gpc' = [gpc EXCEPT ![t] = "returned"]
          /\ UNCHANGED <<delay, sleepLeft, nsleeps, lastErr>>
       \/ \E s \in Errors :
            /\ lastErr' = [lastErr EXCEPT ![t] = s]
            /\ IF IsCapacitySignal(s)
               THEN /\ \E jitter \in {0, 1} :
                          sleepLeft' = [sleepLeft EXCEPT ![t] = delay[t] + jitter]
                    /\ delay' = [delay EXCEPT ![t] = NextDelay(@)]
                    /\ nsleeps' = [nsleeps EXCEPT ![t] = @ + 1]
                    /\ gpc' = [gpc EXCEPT ![t] = "backoff"]
               ELSE /\ gpc' = [gpc EXCEPT ![t] = "raised"]
                    /\ UNCHANGED <<delay, sleepLeft, nsleeps>>
    /\ UNCHANGED <<gLock, gAge, attempt, ngates, stampGap>>
    /\ UNCHANGED offGenai

\* lines 119 and 121: continue with the next attempt; after the last, raise
\* RuntimeError("GenAI call failed after 7 retries due to capacity limits")
BackoffOver(t) ==
    /\ gpc[t] = "backoff"
    /\ sleepLeft[t] = 0
    /\ attempt' = [attempt EXCEPT ![t] = @ + 1]
    /\ gpc' = [gpc EXCEPT ![t] =
                  IF AttemptsLeft(attempt[t] + 1) THEN "throttle" ELSE "exhausted"]
    /\ UNCHANGED <<gLock, gAge, callAge, delay, sleepLeft, ncalls, ngates,
                   nsleeps, lastErr, stampGap, callGap>>
    /\ UNCHANGED offGenai

\* one second passes: for every thread, asleep or not
Tick ==
    /\ gAge' = Capped(gAge + 1)
    /\ callAge' = Capped(callAge + 1)
    /\ sleepLeft' = [t \in Threads |-> Max(0, sleepLeft[t] - 1)]
    /\ UNCHANGED <<gLock, gpc, attempt, delay, ncalls, ngates, nsleeps,
                   lastErr, stampGap, callGap>>
    /\ UNCHANGED offGenai

NextGenai ==
    \/ Tick
    \/ \E t \in Threads :
        \/ GenaiStart(t)
        \/ GateEnter(t)
        \/ GateStamp(t)
        \/ GenaiCall(t)
        \/ BackoffOver(t)


\* C5 (as amended): any two stamps of _GENAI_LAST_TS, whichever threads and
\* attempts take them, are at least GENAI_RATE_INTERVAL_SEC apart, and every
\* invocation of the wrapped call follows a gate passage of its own.
C5_GateStampsSpaced ==
    /\ stampGap >= GENAI_RATE_INTERVAL_SEC
    /\ \A t \in Threads :
          ngates[t] = ncalls[t] + (IF gpc[t] = "call" THEN 1 ELSE 0)

C5_Witness ==
    \E t, u \in Threads :
        /\ t # u
        /\ attempt[t] > 0
        /\ gpc[t] = "call"
        /\ ncalls[u] > 0
        /\ callAge < GENAI_RATE_INTERVAL_SEC

\* C5 (as claimed): any two invocations of the wrapped call are at least
\* GENAI_RATE_INTERVAL_SEC apart.
C5_CallsSpaced == callGap >= GENAI_RATE_INTERVAL_SEC

\* str(e) carries none of RESOURCE_EXHAUSTED, 429, quota
CarriesNoSignal(s) == s = "500 INTERNAL"

\* C6: once call() has raised an error without a capacity signal, the
\* execution has ended by re-raising it: that attempt was the last
\* invocation and no backoff sleep followed it.
C6_OtherErrorPropagates ==
    \A t \in Threads :
        (lastErr[t] # "" /\ CarriesNoSignal(lastErr[t])) =>
            /\ gpc[t] = "raised"
            /\ ncalls[t] = attempt[t] + 1
            /\ nsleeps[t] = attempt[t]
            /\ sleepLeft[t] = 0

C6_Witness ==
    \E t \in Threads :
        /\ gpc[t] = "raised"
        /\ lastErr[t] = "500 INTERNAL"
        /\ attempt[t] = 2

\* C7: the wrapped call is invoked at most 7 times; a return follows the
\* first success, every earlier attempt having failed on capacity; after 7
\* capacity failures nothing follows but the last sleep and the
\* capacity-exhausted error.
C7_AtMostSevenAttempts ==
    \A t \in Threads :
        /\ ncalls[t] <= 7
        /\ gpc[t] = "returned" => (ncalls[t] = attempt[t] + 1 /\ nsleeps[t] = attempt[t])
        /\ gpc[t] = "exhausted" => (ncalls[t] = 7 /\ nsleeps[t] = 7)
        /\ nsleeps[t] = 7 => gpc[t] \in {"backoff", "exhausted"}

C7_Witness ==
    \E t, u \in Threads :
        /\ gpc[t] = "exhausted"
        /\ gpc[u] = "returned" /\ ncalls[u] = 7

(***************************************************************************)
(* Shard publisher and merge coordinator: main.py run(), lines 1109-1371,  *)
(* GCS mode.  Time is counted in polls of the wait loop (time.sleep(5)).   *)
(***************************************************************************)
MaxRows == 2
MaxRunTasks == 3
MergeTimeoutPolls == 2
MaxRetries == 1

\* title cells as the report API delivers them
CellValues == {"Budget 2025", "NA", ""}

\* the texts pandas.read_csv takes for a missing value (those in the domain)
NaTexts == {"", "NA"}

\* DataFrame.to_csv: a missing value is written as the empty field
ToCsvCell(v) == IF v = "<NaN>" THEN "" ELSE v

\* pd.read_csv(pth), line 1292, default na_values
ReadCsvCell_verbatim(txt) == txt
ReadCsvCell(txt) == IF txt \in NaTexts THEN "<NaN>" ELSE txt

\* object keys under the run folder
PartKey(i) == [kind |-> "part", task |-> i]
DupKey(k) == [k EXCEPT !.kind = IF k.kind = "part" THEN "part_dup" ELSE "final_dup"]
FinalKey == [kind |-> "final", task |-> 0]

\* the shard df written by to_csv, lines 1240-1245: the slice's rows
ShardCsv(s) == [n \in 1..(s[2] - s[1]) |->
                   [id |-> s[1] + n - 1, title |-> ToCsvCell(rows[s[1] + n - 1])]]

\* _upload_file_to_gs without the create-only precondition
UploadKey_overwrite(k, objs) == k

\* _upload_file_to_gs lines 189-204: create-only; on a precondition failure
\* create-only again under the __dup_ key; the key written, or "raise"
UploadKey(k, objs) ==
    IF k \notin DOMAIN objs THEN k
    ELSE IF DupKey(k) \notin DOMAIN objs THEN DupKey(k)
    ELSE [kind |-> "raise", task |-> k.task]

\* the bucket after blob.upload_from_filename(local, if_generation_match=0)
Created(k, content, objs) ==
    [x \in (DOMAIN objs) \cup {k} |-> IF x = k THEN content ELSE objs[x]]

\* lines 1270 and 1274: [p for p in _gcs_list(prefix) if p.endswith(".csv")]
ListParts(objs) == {k \in DOMAIN objs : k.kind \in {"part", "part_dup"}}

\* line 1265: expected = task_count
ExpectedShards_nonEmpty(cnt, tot) ==
    Cardinality({i \in 0..(cnt - 1) : StartI(tot, i, cnt) < EndI(tot, i, cnt)})
ExpectedShards(cnt, tot) == cnt

\* sorted(found), line 1279: by task, part-i.csv before part-i__dup_...csv
KeyRank(k) == 2 * k.task + (IF k.kind = "part" THEN 0 ELSE 1)

\* pd.read_csv of one downloaded shard
ReadCsv(csv) == [n \in 1..Len(csv) |->
                    [id |-> csv[n].id, title |-> ReadCsvCell(csv[n].title)]]

\* lines 1289-1295: pd.concat of the shards read, in the order of part_paths
RECURSIVE ConcatFrom(_, _, _)
ConcatFrom(rank, keys, objs) ==
    IF rank > 2 * (MaxRunTasks + 1) + 1 THEN <<>>
    ELSE LET here == {k \in keys : KeyRank(k) = rank}
             part == IF here = {} THEN <<>>
                     ELSE ReadCsv(objs[CHOOSE k \in here : TRUE])
         IN part \o ConcatFrom(rank + 1, keys, objs)

\* lines 1345-1349: the final columns, written by to_csv
FinalCsv(df) == [n \in 1..Len(df) |->
                    [id |-> df[n].id, title |-> ToCsvCell(df[n].title)]]

\* lines 1284-1299: no shard, or no row, ends the run without a final CSV
AfterCollect_strict(nfound, expected, nrows) ==
    IF nfound < expected THEN "crashed" ELSE "upload_final"
AfterCollect_always(nfound, expected, nrows) == "upload_final"
AfterCollect(nfound, expected, nrows) ==
    IF nfound = 0 \/ nrows = 0 THEN "aborted" ELSE "upload_final"

\* lines 1119-1127: a task without rows returns, unless it is task 0
AfterShard_noEarlyExit(i, n) == IF n > 0 THEN "processing" ELSE "poll"
AfterShard_publishEmpty(i, n) == "processing"
AfterShard_allExit(i, n) == IF n > 0 THEN "processing" ELSE "exited"
AfterShard_pollFirst(i, n) ==
    IF i = 0 THEN "poll" ELSE IF n > 0 THEN "processing" ELSE "exited"
AfterShard(i, n) ==
    IF n > 0 THEN "processing" ELSE IF i # 0 THEN "exited" ELSE "poll"

\* lines 1255-1258: after the upload every task but task 0 returns
AfterPublish_all(i) == "poll"
AfterPublish(i) == IF i # 0 THEN "exited" ELSE "poll"

\* line 1269: while time.time() < deadline
DeadlineAhead_always(left) == TRUE
DeadlineAhead(left) == left > 0

\* lines 1352-1355: an upload that raises leaves run() before the post
AfterFinalUpload_postAnyway(ok) == "notify"
AfterFinalUpload(ok) == IF ok THEN "notify" ELSE "final_failed"

\* lines 1110-1125: the slice; a task without rows returns, unless it is task 0
RunShard(i) ==
    /\ rpc[i] = "start"
    /\ LET s == <<StartI(total, i, taskCount), EndI(total, i, taskCount)>>
       IN /\ slice' = [slice EXCEPT ![i] = s]
          /\ rpc' = [rpc EXCEPT ![i] = AfterShard(i, s[2] - s[1])]
          /\ IF s[2] - s[1] = 0 /\ i = 0
             THEN /\ waitLeft' = MergeTimeoutPolls
                  /\ napLeft' = 0
                  /\ polled' = FALSE
             ELSE UNCHANGED <<waitLeft, napLeft, polled>>
    /\ UNCHANGED <<envTaskCount, total, rows, retries, objects, found, warned,
                   finalLocal, notified>>
    /\ UNCHANGED offRun

\* lines 1127-1268: enrich the slice, write the shard, upload it; the other
\* tasks return, task 0 sets its deadline
PublishShard(i) ==
    /\ rpc[i] = "processing"
    /\ LET k == UploadKey(PartKey(i), objects)
       IN IF k.kind = "raise"
          THEN /\ rpc' = [rpc EXCEPT ![i] = "crashed"]
               /\ UNCHANGED <<objects, waitLeft, napLeft, polled>>
          ELSE /\ objects' = Created(k, ShardCsv(slice[i]), objects)
               /\ rpc' = [rpc EXCEPT ![i] = AfterPublish(i)]
               /\ IF i = 0
                  THEN /\ waitLeft' = MergeTimeoutPolls
                       /\ napLeft' = 0
                       /\ polled' = FALSE
                  ELSE UNCHANGED <<waitLeft, napLeft, polled>>
    /\ UNCHANGED <<envTaskCount, total, slice, rows, retries, found, warned,
                   finalLocal, notified>>
    /\ UNCHANGED offRun

\* lines 1127-1253: an exception of the enrichment set-up or of the upload
\* leaves run(); the task ends without a shard
TaskFails(i) ==
    /\ rpc[i] = "processing"
    /\ rpc' = [rpc EXCEPT ![i] = "crashed"]
    /\ UNCHANGED <<envTaskCount, total, slice, rows, retries, objects, waitLeft,
                   napLeft, found, polled, warned, finalLocal, notified>>
    /\ UNCHANGED offRun

\* the job runner starts a failed task again (--max-retries=1, line 20)
TaskRetry(i) ==
    /\ rpc[i] \in {"crashed", "final_failed"}
    /\ retries[i] < MaxRetries
    /\ retries' = [retries EXCEPT ![i] = @ + 1]
    /\ rpc' = [rpc EXCEPT ![i] = "start"]
    /\ slice' = [slice EXCEPT ![i] = <<>>]
    /\ IF i = 0
       THEN /\ found' = {}
            /\ polled' = FALSE
            /\ warned' = FALSE
            /\ finalLocal' = <<>>
            /\ waitLeft' = 0
            /\ napLeft' = 0
       ELSE UNCHANGED <<found, polled, warned, finalLocal, waitLeft, napLeft>>
    /\ UNCHANGED <<envTaskCount, total, rows, objects, notified>>
    /\ UNCHANGED offRun

\* lines 1269-1273: one turn of the wait loop, while the deadline is ahead
Poll ==
    /\ rpc[0] = "poll"
    /\ DeadlineAhead(waitLeft)
    /\ napLeft = 0
    /\ found' = ListParts(objects)
    /\ polled' = TRUE
    /\ IF Cardinality(ListParts(objects)) >= ExpectedShards(taskCount, total)
       THEN /\ rpc' = [rpc EXCEPT ![0] = "collect"]
            /\ UNCHANGED napLeft
       ELSE /\ napLeft' = 1
            /\ UNCHANGED rpc
    /\ UNCHANGED <<envTaskCount, total, slice, rows, retries, objects, waitLeft,
                   warned, finalLocal, notified>>
    /\ UNCHANGED offRun

\* line 1269: the deadline has passed, the loop ends
Timeout ==
    /\ rpc[0] = "poll"
    /\ ~DeadlineAhead(waitLeft)
    /\ napLeft = 0
    /\ rpc' = [rpc EXCEPT ![0] = "collect"]
    /\ UNCHANGED <<envTaskCount, total, slice, rows, retries, objects, waitLeft,
                   napLeft, found, polled, warned, finalLocal, notified>>
    /\ UNCHANGED offRun

\* lines 1274-1350: list again, warn when shards are missing, download what
\* was found, concatenate, derive the final columns, write the local CSV
MergeShards ==
    /\ rpc[0] = "collect"
    /\ LET fnd == ListParts(objects)
           df == ConcatFrom(0, fnd, objects)
       IN /\ found' = fnd
          /\ warned' = (Cardinality(fnd) < ExpectedShards(taskCount, total))
          /\ finalLocal' = FinalCsv(df)
          /\ rpc' = [rpc EXCEPT ![0] =
                        AfterCollect(Cardinality(fnd),
                                     ExpectedShards(taskCount, total), Len(df))]
    /\ UNCHANGED <<envTaskCount, total, slice, rows, retries, objects, waitLeft,
                   napLeft, polled, notified>>
    /\ UNCHANGED offRun

\* lines 1352-1355: upload the final CSV (create-only, as every upload);
\* _upload_file_to_gs raises what is not a precondition failure, line 204
UploadFinal ==
    /\ rpc[0] = "upload_final"
    /\ \E ok \in BOOLEAN :
          LET k == UploadKey(FinalKey, objects)
          IN IF ~ok \/ k.kind = "raise"
             THEN /\ rpc' = [rpc EXCEPT ![0] = AfterFinalUpload(FALSE)]
                  /\ UNCHANGED objects
             ELSE /\ objects' = Created(k, finalLocal, objects)
                  /\ rpc' = [rpc EXCEPT ![0] = AfterFinalUpload(TRUE)]
    /\ UNCHANGED <<envTaskCount, total, slice, rows, retries, waitLeft, napLeft,
                   found, polled, warned, finalLocal, notified>>
    /\ UNCHANGED offRun

\* lines 1357-1371 and _post_slack lines 994-999: post to Slack; a status
\* of 300 or more raises RuntimeError out of run()
Notify ==
    /\ rpc[0] = "notify"
    /\ notified' = notified + 1
    /\ \E status \in {200, 500} :
          rpc' = [rpc EXCEPT ![0] = IF status >= 300 THEN "crashed" ELSE "done"]
    /\ UNCHANGED <<envTaskCount, total, slice, rows, retries, objects, waitLeft,
                   napLeft, found, polled, warned, finalLocal>>
    /\ UNCHANGED offRun

\* the time of one poll passes
RunTick ==
    /\ rpc[0] = "poll"
    /\ waitLeft > 0 \/ napLeft > 0
    /\ waitLeft' = Max(0, waitLeft - 1)
    /\ napLeft' = Max(0, napLeft - 1)
    /\ UNCHANGED <<envTaskCount, total, slice, rows, rpc, retries, objects,
                   found, polled, warned, finalLocal, notified>>
    /\ UNCHANGED offRun

NextRun ==
    \/ \E i \in Tasks : RunShard(i)
    \/ \E i \in Tasks : PublishShard(i)
    \/ \E i \in Tasks : TaskFails(i)
    \/ \E i \in Tasks : TaskRetry(i)
    \/ Poll
    \/ Timeout
    \/ MergeShards
    \/ UploadFinal
    \/ Notify
    \/ RunTick


\* tasks whose slice has no row
EmptyTasks == {i \in Tasks : StartI(total, i, taskCount) = EndI(total, i, taskCount)}

\* the coordinator's run has passed the merge of lines 1274-1350
Merged == rpc[0] \in {"upload_final", "notify", "done"}

\* the rows of the shards in `found`, counted
RECURSIVE RowsIn(_)
RowsIn(keys) ==
    IF keys = {} THEN 0
    ELSE LET k == CHOOSE x \in keys : TRUE
         IN Len(objects[k]) + RowsIn(keys \ {k})

\* C8: the coordinator leaves the wait loop as soon as a listing shows
\* taskCount minus the number of empty tasks shards: it is never found
\* sleeping in the loop after such a listing.
C8_StopsAtNonEmptyCount ==
    (rpc[0] = "poll" /\ polled) =>
        Cardinality(found) < taskCount - Cardinality(EmptyTasks)

C10_FinalIsUnionOfShards ==
    (Merged /\ ~warned /\ \A i \in Tasks : PartKey(i) \in found) =>
        /\ Len(finalLocal) = RowsIn(found)
        /\ \A k \in found : \A n \in 1..Len(objects[k]) :
              Cardinality({m \in 1..Len(finalLocal) : finalLocal[m].id = objects[k][n].id})
                  = Cardinality({x \in found : \E j \in 1..Len(objects[x]) :
                                      objects[x][j].id = objects[k][n].id})
        /\ \A k \in found : \A n \in 1..Len(objects[k]) :
              \E m \in 1..Len(finalLocal) : finalLocal[m] = objects[k][n]

\* the bucket a complete run of one task over the single row "Budget 2025"
\* leaves behind: its shard and the final CSV
CompleteRunStore ==
    (PartKey(0) :> <<[id |-> 0, title |-> "Budget 2025"]>>)
        @@ (FinalKey :> <<[id |-> 0, title |-> "Budget 2025"]>>)

\* C11: a degraded merge is told apart from a complete one by what is in
\* the bucket: a run that ends after the warning never leaves the bucket of
\* a complete run with the same merged rows.
C11_DegradedIsDistinguishable ==
    (rpc[0] = "done" /\ warned) => objects # CompleteRunStore

C13_WorkersStopAfterPublish ==
    [][\A i \in Tasks \ {0} :
          /\ (PartKey(i) \notin DOMAIN objects /\ PartKey(i) \in DOMAIN objects') =>
                /\ rpc'[i] = "exited"
                /\ found' = found /\ finalLocal' = finalLocal /\ warned' = warned
                /\ FinalKey \in DOMAIN objects' <=> FinalKey \in DOMAIN objects
          /\ rpc[i] = "exited" => rpc'[i] = "exited"]_vars

C13_Witness ==
    /\ \E i \in Tasks \ {0} : rpc[i] = "exited" /\ PartKey(i) \in DOMAIN objects
    /\ rpc[0] = "notify"
    /\ ~warned

\* C14: an object that exists keeps its content for ever: no upload of any
\* task replaces it, also when the same task publishes again.
C14_ObjectsNeverChange ==
    [][\A k \in DOMAIN objects : k \in DOMAIN objects' /\ objects'[k] = objects[k]]_vars

C14_Witness ==
    /\ DupKey(PartKey(0)) \in DOMAIN objects
    /\ DupKey(FinalKey) \in DOMAIN objects

\* C15: publishing again leaves the set of shard artifacts as it was: every
\* artifact under the parts directory is at a task's own key.
C15_OneArtifactPerTask == \A k \in ListParts(objects) : k.kind = "part"

\* C16: a task other than task 0 whose slice is empty ends normally once
\* it has computed the slice: it never enters the enrichment, never fails,
\* is never restarted and leaves no shard artifact.
C16_EmptyWorkerExits ==
    \A i \in Tasks \ {0} :
        (i \in EmptyTasks /\ rpc[i] # "start") =>
            /\ rpc[i] = "exited"
            /\ retries[i] = 0
            /\ PartKey(i) \notin DOMAIN objects
            /\ DupKey(PartKey(i)) \notin DOMAIN objects

C16_Witness ==
    /\ \E i \in Tasks \ {0} : i \in EmptyTasks /\ rpc[i] = "exited"
    /\ \E i \in Tasks \ {0} : i \notin EmptyTasks /\ rpc[i] = "exited"
    /\ rpc[0] = "done"

\* the positions of run() behind the upload of the task's own shard
PastPublish == {"poll", "collect", "upload_final", "notify", "done", "aborted",
                "final_failed"}

\* the positions of run() from the merge on
InMerge == {"collect", "upload_final", "notify", "done", "aborted", "final_failed"}

\* the shard artifacts of task i
ShardsOf(i, objs) == {k \in ListParts(objs) : k.task = i}

C33_EmptyCoordinatorStillMerges ==
    (0 \in EmptyTasks /\ rpc[0] # "start") =>
        /\ rpc[0] \in PastPublish \cup {"crashed"}
        /\ rpc[0] = "crashed" => notified > 0
        /\ ShardsOf(0, objects) = {}
        /\ rpc[0] = "collect" => (polled \/ waitLeft = 0)
        /\ Merged =>
              /\ found # {}
              /\ \A k \in found : k.task # 0
              /\ Len(finalLocal) = RowsIn(found)
              /\ \A k \in found : \A n \in 1..Len(objects[k]) :
                    \E m \in 1..Len(finalLocal) : finalLocal[m].id = objects[k][n].id

C33_Witness ==
    /\ 0 \in EmptyTasks
    /\ rpc[0] = "done"
    /\ Cardinality(found) = 2
    /\ Len(finalLocal) = 2
    /\ \A i \in Tasks \ {0} : rpc[i] = "exited"

\* the final CSV of this execution is in the store
FinalStored ==
    \E f \in {FinalKey, DupKey(FinalKey)} :
        f \in DOMAIN objects /\ objects[f] = finalLocal

RunEnded == rpc[0] \in {"done", "aborted", "crashed", "final_failed"}

\* C35: while the clock advances and the listings and requests of task 0
\* return, a coordinator in the wait loop leaves it and its run() ends,
\* whether or not another shard appears; the loop body is entered only
\* while the deadline is ahead, and the time left never exceeds the timeout.
C35_WaitLoopEnds ==
    /\ (rpc[0] = "poll") ~> RunEnded
    /\ [](rpc[0] = "poll" => (waitLeft <= MergeTimeoutPolls /\ napLeft <= 1))
    /\ [][(napLeft = 0 /\ napLeft' = 1) => (waitLeft > 0 /\ rpc[0] = "poll")]_vars

C35_Witness ==
    /\ rpc[0] = "aborted"
    /\ polled
    /\ waitLeft = 0
    /\ ListParts(objects) = {}
    /\ \E i \in Tasks \ {0} : rpc[i] = "processing"

\* C39: a coordinator that leaves the wait loop because its listing
\* counted taskCount objects or more has every task's own shard in that
\* listing, also when a '__dup_' copy is among the objects counted.
C39_EarlyExitHasEveryShard ==
    (rpc[0] = "collect" /\ polled /\ Cardinality(found) >= taskCount) =>
        \A i \in Tasks : PartKey(i) \in found

\* C40: a coordinator that finds no shard, or no row in the shards, ends
\* normally and stays ended: it has written no final artifact and posted
\* nothing; every final artifact in the store has at least one row, and
\* every upload of one is of the rows just merged.
C40_NothingToMergeNothingWritten ==
    /\ [](/\ rpc[0] = "aborted" =>
                /\ ListParts(objects) = {} \/ finalLocal = <<>>
                /\ \A k \in DOMAIN objects : k.kind \notin {"final", "final_dup"}
                /\ notified = 0
          /\ \A k \in DOMAIN objects :
                k.kind \in {"final", "final_dup"} => Len(objects[k]) >= 1
          /\ rpc[0] \in {"upload_final", "notify"} => Len(finalLocal) >= 1)
    /\ [][rpc[0] = "aborted" =>
             (rpc'[0] = "aborted" /\ retries'[0] = retries[0]
              /\ notified' = notified)]_vars

C40_Witness ==
    /\ rpc[0] = "aborted"
    /\ warned
    /\ found = {}
    /\ total > 0
    /\ \E i \in Tasks \ {0} : rpc[i] = "exited" /\ PartKey(i) \in DOMAIN objects

(***************************************************************************)
(* Enrichment of one task's slice: main.py run(), lines 1127-1238.         *)
(* A text is a record: what it is, the row it belongs to, what it was      *)
(* made from.                                                              *)
(***************************************************************************)
MaxEnrichRows == 2

R == 0..(dfLen - 1)
Maps == {"art", "ttl"}

NoText == [kind |-> "", row |-> 0, via |-> ""]
IsBlank(t) == t.kind = ""
Message(i) == [kind |-> "message", row |-> i, via |-> ""]
Title(i) == [kind |-> "title", row |-> i, via |-> ""]
Scraped(i) == [kind |-> "scraped", row |-> i, via |-> ""]
Page(i) == [kind |-> "page", row |-> i, via |-> ""]

\* _presegment_text, lines 556-572
Presegment(t) == IF IsBlank(t) THEN NoText
                 ELSE [kind |-> "pre", row |-> t.row, via |-> t.kind]

\* the body lines classify_and_extract_article keeps of its input
Body(t) == [kind |-> "body", row |-> t.row, via |-> t.kind]

\* the Japanese text _translate_to_ja_with_gemini returns for its input
Ja(t) == [kind |-> "ja", row |-> t.row, via |-> t.kind]

\* classify_and_extract_article, lines 606-669: blank input returns ""
\* without a call; otherwise the call raises, or the answer holds no body
\* line, or it holds some
ClassifyOutcomes(t) ==
    IF IsBlank(t) THEN {[ok |-> TRUE, val |-> NoText]}
    ELSE {[ok |-> TRUE, val |-> Body(t)],
          [ok |-> TRUE, val |-> NoText],
          [ok |-> FALSE, val |-> NoText]}

\* _translate_to_ja_with_gemini, lines 672-721: every exception is caught
\* lines 714-721: every candidate raised; the loop ends and "" is returned
AllCandidatesFailed_echo(t) == t
AllCandidatesFailed(t) == NoText

\* the candidate loop: some candidate answers with text, or the answers
\* are blank, or every candidate raises
TranslateOutcomes(t) ==
    IF IsBlank(t) THEN {[ok |-> TRUE, val |-> NoText, failed |-> FALSE]}
    ELSE {[ok |-> TRUE, val |-> Ja(t), failed |-> FALSE],
          [ok |-> TRUE, val |-> NoText, failed |-> FALSE],
          [ok |-> TRUE, val |-> AllCandidatesFailed(t), failed |-> TRUE]}

NoFuture == [st |-> "unsubmitted", arg |-> NoText]

\* lines 1144, 1221, 1228: i = futures[fut], the index given at submit
StoreAt_arrival(i, ncollected) == ncollected
StoreAt(i, ncollected) == i

\* leaving `with ThreadPoolExecutor(...)`: every future has been collected
PoolDrained_noWait(f) == TRUE
PoolDrained(f) == \A i \in DOMAIN f : f[i].st = "collected"

\* lines 1177-1183: the classified scraped text, or nothing
ScraperBody_rawFallback(cls_txt, txt) == IF IsBlank(cls_txt) THEN txt ELSE cls_txt
ScraperBody(cls_txt, txt) == cls_txt

Collected(f) == Cardinality({i \in DOMAIN f : f[i].st = "collected"})

\* a pool worker takes the submitted _do_classify of row i
ClassifyStart(i) ==
    /\ futA[i].st = "pending"
    /\ futA' = [futA EXCEPT ![i].st = "running"]
    /\ UNCHANGED <<dfLen, epc, article, sources, todo, futB,
                   jaArticle, jaTitle, exFailed, scraped, trFailed>>
    /\ UNCHANGED offEnrich

\* lines 1131-1136 and 1143-1149: _do_classify returns or raises, and
\* as_completed hands the future to the main thread, which stores its
\* result, or "" when fut.result() raises
ClassifyDone(i) ==
    /\ epc = "classify"
    /\ futA[i].st = "running"
    /\ \E o \in ClassifyOutcomes(futA[i].arg) :
          /\ article' = [article EXCEPT ![StoreAt(i, Collected(futA))] =
                            IF o.ok THEN o.val ELSE NoText]
          /\ exFailed' = (exFailed \/ ~o.ok)
    /\ futA' = [futA EXCEPT ![i] = [st |-> "collected", arg |-> NoText]]
    /\ UNCHANGED <<dfLen, epc, sources, todo, futB, jaArticle,
                   jaTitle, scraped, trFailed>>
    /\ UNCHANGED offEnrich

\* lines 1141, 1151-1157: the pool is left; sources and empty_idxs
EndPhaseA ==
    /\ epc = "classify"
    /\ PoolDrained(futA)
    /\ sources' = [i \in R |-> IF IsBlank(article[i]) THEN "" ELSE "sprinklr"]
    /\ todo' = {i \in R : IsBlank(article[i])}
    /\ epc' = "recover"
    /\ UNCHANGED <<dfLen, futA, article, futB, jaArticle, jaTitle,
                   exFailed, scraped, trFailed>>
    /\ UNCHANGED offEnrich

NextEmpty == CHOOSE i \in todo : \A j \in todo : i <= j

\* lines 1162-1185: the scraper returned text for the next empty row
RecoverViaScraper ==
    /\ epc = "recover"
    /\ todo # {}
    /\ LET i == NextEmpty
           txt == Scraped(i)
       IN \E o \in ClassifyOutcomes(Presegment(txt)) :
            LET cls_txt == IF o.ok THEN o.val ELSE NoText
            IN /\ article' = [article EXCEPT ![i] = ScraperBody(cls_txt, txt)]
               /\ sources' = [sources EXCEPT ![i] =
                                 IF IsBlank(cls_txt) THEN @ ELSE "scraper"]
               /\ exFailed' = (exFailed \/ ~o.ok)
               /\ scraped' = scraped \cup {i}
               /\ todo' = todo \ {i}
    /\ UNCHANGED <<dfLen, epc, futA, futB, jaArticle, jaTitle,
                   trFailed>>
    /\ UNCHANGED offEnrich

\* lines 1186-1197 and _fetch_and_classify, lines 891-917: the scraper
\* returned nothing; the page is fetched and classified
RecoverViaFetch ==
    /\ epc = "recover"
    /\ todo # {}
    /\ LET i == NextEmpty
       IN \E page \in {NoText, Page(i)} :
            \E o \in ClassifyOutcomes(page) :
               IF o.ok
               THEN /\ article' = [article EXCEPT ![i] = o.val]
                    /\ sources' = [sources EXCEPT ![i] =
                                      IF ~IsBlank(o.val) /\ @ = ""
                                      THEN "sprinklr" ELSE @]
                    /\ todo' = todo \ {i}
                    /\ UNCHANGED <<epc, exFailed>>
               ELSE /\ epc' = "crashed"
                    /\ exFailed' = TRUE
                    /\ UNCHANGED <<article, sources, todo>>
    /\ UNCHANGED <<dfLen, futA, futB, jaArticle, jaTitle, scraped,
                   trFailed>>
    /\ UNCHANGED offEnrich

\* lines 1199-1217: the recovery loop is over; both translations of every
\* row are submitted to the second pool
SubmitTranslations ==
    /\ epc = "recover"
    /\ todo = {}
    /\ futB' = [m \in Maps |-> [i \in R |->
                   [st |-> "pending",
                    arg |-> IF m = "art" THEN article[i] ELSE Title(i)]]]
    /\ epc' = "translate"
    /\ UNCHANGED <<dfLen, futA, article, sources, todo, jaArticle,
                   jaTitle, exFailed, scraped, trFailed>>
    /\ UNCHANGED offEnrich

\* a pool worker takes a submitted translation
TranslateStart(m, i) ==
    /\ futB[m][i].st = "pending"
    /\ futB' = [futB EXCEPT ![m][i].st = "running"]
    /\ UNCHANGED <<dfLen, epc, futA, article, sources, todo,
                   jaArticle, jaTitle, exFailed, scraped, trFailed>>
    /\ UNCHANGED offEnrich

\* lines 1206-1210 and 1218-1233: the translation returns, and
\* as_completed hands the future to the main thread, which stores its
\* result in the list of the map the future belongs to
TranslateDone(m, i) ==
    /\ epc = "translate"
    /\ futB[m][i].st = "running"
    /\ \E o \in TranslateOutcomes(futB[m][i].arg) :
        /\ trFailed' = (trFailed \/ o.failed)
        /\ IF m = "art"
           THEN /\ jaArticle' = [jaArticle EXCEPT
                                    ![StoreAt(i, Collected(futB[m]))] = o.val]
                /\ UNCHANGED jaTitle
           ELSE /\ jaTitle' = [jaTitle EXCEPT
                                  ![StoreAt(i, Collected(futB[m]))] = o.val]
                /\ UNCHANGED jaArticle
    /\ futB' = [futB EXCEPT ![m][i] = [st |-> "collected", arg |-> NoText]]
    /\ UNCHANGED <<dfLen, epc, futA, article, sources, todo,
                   exFailed, scraped>>
    /\ UNCHANGED offEnrich

\* lines 1215, 1236-1253: the second pool is left, the shard is written
\* and published
EndPhaseB ==
    /\ epc = "translate"
    /\ \A m \in Maps : PoolDrained(futB[m])
    /\ epc' = "published"
    /\ UNCHANGED <<dfLen, futA, article, sources, todo, futB,
                   jaArticle, jaTitle, exFailed, scraped, trFailed>>
    /\ UNCHANGED offEnrich

NextEnrich ==
    \/ \E i \in R : ClassifyStart(i)
    \/ \E i \in R : ClassifyDone(i)
    \/ EndPhaseA
    \/ RecoverViaScraper
    \/ RecoverViaFetch
    \/ SubmitTranslations
    \/ \E m \in Maps, i \in R : TranslateStart(m, i)
    \/ \E m \in Maps, i \in R : TranslateDone(m, i)
    \/ EndPhaseB

\* C17: when a translation of any row has been taken up by a worker, the
\* extraction of every row is over: every Phase 1 future is collected and
\* the recovery loop has no row left.
C17_TranslationAfterExtraction ==
    (\E m \in Maps : \E i \in R : futB[m][i].st \in {"running", "collected"}) =>
        /\ \A i \in R : futA[i].st = "collected"
        /\ todo = {}
        /\ epc \in {"translate", "published"}

C17_Witness ==
    /\ \E i \in R : futB["art"][i].st = "running" /\ sources[i] = "scraper"
    /\ \E i \in R : futB["ttl"][i].st = "collected"
    /\ exFailed

\* C18: whatever the order in which futures complete, what is stored for
\* row i is made from row i: its body from its own message, scraped text
\* or page, its translated body from its own body, its translated title
\* from its own title.
C18_RowsKeepTheirResults ==
    \A i \in R :
        /\ ~IsBlank(article[i]) =>
              /\ article[i].row = i
              /\ article[i].kind = "body"
              /\ article[i].via \in {"message", "pre", "page"}
        /\ ~IsBlank(jaArticle[i]) => jaArticle[i] = Ja(article[i])
        /\ ~IsBlank(jaTitle[i]) => jaTitle[i] = Ja(Title(i))

C18_Witness ==
    /\ dfLen >= 2
    /\ futA[0].st = "collected" /\ futA[1].st = "collected"
    /\ article[0] = Body(Message(0)) /\ ~IsBlank(article[1])
    /\ futB["art"][1].st = "collected" /\ ~IsBlank(jaArticle[1])
    /\ futB["art"][0].st = "running"
    /\ futB["ttl"][1].st = "collected" /\ ~IsBlank(jaTitle[1])
    /\ futB["ttl"][0].st = "pending"

\* C19: an extraction call that raises for a row, in the pool or in the
\* recovery of that row, never takes run() down.
C19_ExtractionFailureContained == exFailed => epc # "crashed"

\* C20: a row for which the scraper returned text ends with the body that
\* the extraction call made of that text, or with nothing; no stored body
\* is ever a raw recovered text.
C20_NoRawFallback ==
    /\ \A i \in scraped : article[i] \in {NoText, Body(Presegment(Scraped(i)))}
    /\ \A i \in R : article[i].kind \in {"", "body"}
    /\ \A i \in R : sources[i] = "scraper" <=> (i \in scraped /\ ~IsBlank(article[i]))

C20_Witness ==
    /\ epc = "published"
    /\ \E i \in scraped : IsBlank(article[i])
    /\ \E i \in scraped : article[i] = Body(Presegment(Scraped(i))) /\ ~IsBlank(jaArticle[i])

\* C21: a translation that fails leaves an empty value in its own field
\* and nothing else: every stored translation is blank or the translation
\* of its own row's body or title, the task is never taken down by it, and
\* the shard is published with every future collected.
C21_TranslationFailureContained ==
    /\ \A i \in R : jaArticle[i].kind \in {"", "ja"} /\ jaTitle[i].kind \in {"", "ja"}
    /\ \A i \in R : ~IsBlank(jaArticle[i]) => jaArticle[i].row = i /\ jaArticle[i].via = "body"
    /\ \A i \in R : ~IsBlank(jaTitle[i]) => jaTitle[i].row = i /\ jaTitle[i].via = "title"
    /\ trFailed => epc \in {"translate", "published"}
    /\ epc = "published" => \A m \in Maps : \A i \in R : futB[m][i].st = "collected"

C21_Witness ==
    /\ trFailed
    /\ epc = "published"
    /\ \E i \in R : ~IsBlank(article[i]) /\ IsBlank(jaArticle[i]) /\ ~IsBlank(jaTitle[i])
    /\ \E i \in R : ~IsBlank(jaArticle[i])

(***************************************************************************)
(* _translate_to_ja_with_gemini, main.py lines 672-721.                    *)
(***************************************************************************)
\* arguments: strings, and the float NaN a missing cell gives
Texts == {"", "  ", "Budget 2025", "<NaN>"}
IsStr(text) == text # "<NaN>"

\* str.strip()
Strip(text) == IF text = "  " THEN "" ELSE text

\* line 673: not isinstance(text, str) or not text.strip()
SkipsCall_emptyOnly(text) == text = ""
SkipsCall(text) == ~IsStr(text) \/ Strip(text) = ""

\* lines 684-696: the (location, model) candidates
Candidates(region) ==
    IF region = "asia-northeast1"
    THEN <<"asia-northeast1/flash", "us-central1/flash-lite", "us-central1/flash">>
    ELSE <<"region/flash-lite", "region/flash", "us-central1/flash-lite",
           "us-central1/flash">>

\* lines 672-674, 681-696
TranslateEnter ==
    /\ trpc = "entry"
    /\ IF SkipsCall(trText)
       THEN /\ trOut' = ""
            /\ trpc' = "returned"
       ELSE /\ trpc' = "loop"
            /\ UNCHANGED trOut
    /\ UNCHANGED <<trText, trRegion, trCand, trCalls, trStamps>>
    /\ UNCHANGED offTranslate

\* lines 698-720: one candidate; _genai_with_backoff_call makes n attempts,
\* each through the gate, and returns text, returns blank text, or raises
CandidateCall ==
    /\ trpc = "loop"
    /\ trCand <= Len(Candidates(trRegion))
    /\ \E n \in 1..GenaiAttempts :
        \E outcome \in {"text", "blank", "NOT_FOUND", "error"} :
            /\ trCalls' = trCalls + n
            /\ trStamps' = trStamps + n
            /\ IF outcome = "text"
               THEN /\ trOut' = "ja"
                    /\ trpc' = "returned"
                    /\ UNCHANGED trCand
               ELSE /\ trCand' = trCand + 1
                    /\ UNCHANGED <<trOut, trpc>>
    /\ UNCHANGED <<trText, trRegion>>
    /\ UNCHANGED offTranslate

\* line 721: no candidate answered
CandidatesExhausted ==
    /\ trpc = "loop"
    /\ trCand > Len(Candidates(trRegion))
    /\ trOut' = ""
    /\ trpc' = "returned"
    /\ UNCHANGED <<trText, trRegion, trCand, trCalls, trStamps>>
    /\ UNCHANGED offTranslate

NextTranslate ==
    \/ TranslateEnter
    \/ CandidateCall
    \/ CandidatesExhausted

\* C22: called with an empty or whitespace-only text the function returns
\* "" with no generate_content call made and _GENAI_LAST_TS never written.
C22_BlankTextMakesNoCall ==
    (trpc # "entry" /\ IsStr(trText) /\ Strip(trText) = "") =>
        /\ trpc = "returned"
        /\ trOut = ""
        /\ trCalls = 0
        /\ trStamps = 0

C22_Witness ==
    /\ trpc = "returned"
    /\ trText = "  "
    /\ trStamps = 0


(***************************************************************************)
(* Row de-duplication: function_api_payload_from_sprinklr.py, lines 279-315 *)
(*                                                                         *)
(* A row is a record of the columns the key is taken from, and `rest` for  *)
(* all its other columns.  A column value is a natural number: 0 is a      *)
(* missing or empty value, n > 0 the text "n".  umid and sn are the ids of *)
(* the object in ES_MESSAGE_ID_0, umid1 and sn1 those of the object in     *)
(* ES_MESSAGE_ID, link and link1 are PERMALINK and PERMALINK_1; title and  *)
(* source are the first non-empty of their two columns.                    *)
(***************************************************************************)
MaxDedupRows == 3

Row(umid, sn, link, title, source, rest) ==
    [umid |-> umid, sn |-> sn, umid1 |-> 0, sn1 |-> 0, link |-> link,
     link1 |-> 0, title |-> title, source |-> source, rest |-> rest]

\* the row with the object {universalMessageId, snMsgId} in ES_MESSAGE_ID
SecondId(r, umid, sn) == [r EXCEPT !.umid1 = umid, !.sn1 = sn]

\* the row with PERMALINK_1
SecondLink(r, link) == [r EXCEPT !.link1 = link]

\* "no key": what _extract_row_key returns as None
NoKey == <<>>

\* _extract_row_key: for ES_MESSAGE_ID_0 and then ES_MESSAGE_ID, the
\* object's universalMessageId, else its snMsgId; then PERMALINK, then
\* PERMALINK_1; then f"{title}||{source}" when both are there, else None.
\* A plain key is the 1-tuple of its text, the composite key the pair.
ExtractRowKey(r) ==
    IF r.umid # 0 THEN <<r.umid>>
    ELSE IF r.sn # 0 THEN <<r.sn>>
    ELSE IF r.umid1 # 0 THEN <<r.umid1>>
    ELSE IF r.sn1 # 0 THEN <<r.sn1>>
    ELSE IF r.link # 0 THEN <<r.link>>
    ELSE IF r.link1 # 0 THEN <<r.link1>>
    ELSE IF r.title # 0 /\ r.source # 0 THEN <<r.title, r.source>>
    ELSE NoKey

\* line 310: _extract_row_key(r) or json.dumps(r, sort_keys=True); the JSON
\* text of a row is a 3-tuple, so that it equals no extracted key
RowKeyOrJson(r) ==
    IF ExtractRowKey(r) # NoKey THEN ExtractRowKey(r) ELSE <<0, 0, r>>

\* line 313: seen.add(key)
Seen_lastOnly(seen, key) == {key}
Seen(seen, key) == seen \cup {key}

\* lines 309-314, the loop over the rows still to visit
RECURSIVE DedupLoop(_, _, _)
DedupLoop(rest, seen, uniq) ==
    IF rest = <<>> THEN uniq
    ELSE LET r == Head(rest)
             key == RowKeyOrJson(r)
         IN IF key \in seen
            THEN DedupLoop(Tail(rest), seen, uniq)
            ELSE DedupLoop(Tail(rest), Seen(seen, key), Append(uniq, r))

dedup_rows(rs) == DedupLoop(rs, {}, <<>>)

\* rows that share a message id, rows whose snMsgId is another row's
\* universalMessageId, rows with a permalink only, with title and source
\* only, rows with no key at all, a row with a snMsgId in ES_MESSAGE_ID_0
\* and a universalMessageId in ES_MESSAGE_ID, and a row with PERMALINK_1 only
SampleRows ==
    {Row(1, 0, 0, 0, 0, 1), Row(1, 0, 0, 0, 0, 2), Row(0, 1, 0, 0, 0, 1),
     Row(0, 0, 2, 0, 0, 1), Row(0, 0, 0, 3, 4, 1), Row(0, 0, 0, 3, 4, 2),
     Row(0, 0, 0, 3, 0, 1),
     SecondId(Row(0, 6, 0, 0, 0, 1), 5, 0), Row(5, 0, 0, 0, 0, 2),
     SecondLink(Row(0, 0, 0, 0, 0, 1), 2)}

RowLists == UNION {[1..n -> SampleRows] : n \in 0..MaxDedupRows}

DedupIdle ==
    [pc |-> "twice", rows |-> <<>>, keys |-> <<>>, once |-> <<>>, twice |-> <<>>]

\* rows = dedup_rows(rows), line 458
DedupOnce ==
    /\ dedup.pc = "input"
    /\ dedup' = [dedup EXCEPT !.pc = "once",
                               !.keys = [j \in 1..Len(dedup.rows) |->
                                            RowKeyOrJson(dedup.rows[j])],
                               !.once = dedup_rows(dedup.rows)]
    /\ UNCHANGED offDedup

\* dedup_rows applied to its own output
DedupTwice ==
    /\ dedup.pc = "once"
    /\ dedup' = [dedup EXCEPT !.pc = "twice", !.twice = dedup_rows(dedup.once)]
    /\ UNCHANGED offDedup

NextDedup ==
    \/ DedupOnce
    \/ DedupTwice

\* positions of `s` holding key k
KeyPositions(s, k) == {j \in 1..Len(s) : RowKeyOrJson(s[j]) = k}

\* the smallest member of a non-empty set of positions
First(S) == CHOOSE j \in S : \A h \in S : j <= h

\* the rows of s at the first position of each key, in the order of s
FirstOccurrences(s) ==
    LET P == {j \in 1..Len(s) : j = First(KeyPositions(s, RowKeyOrJson(s[j])))}
        RECURSIVE Pick(_)
        Pick(j) == IF j > Len(s) THEN <<>>
                   ELSE (IF j \in P THEN <<s[j]>> ELSE <<>>) \o Pick(j + 1)
    IN Pick(1)

\* C27: dedup_rows applied to its own output returns it unchanged; of the rows
\* sharing a key the first in input order is the one kept; the output is a
\* subsequence of the input (the first occurrence of each key, in input
\* order) and its keys are pairwise distinct.
C27_DedupFirstSeenWins ==
    /\ dedup.pc \in {"once", "twice"} =>
          /\ dedup.once = FirstOccurrences(dedup.rows)
          /\ \A j, h \in 1..Len(dedup.once) :
                j # h => RowKeyOrJson(dedup.once[j]) # RowKeyOrJson(dedup.once[h])
          /\ \A j \in 1..Len(dedup.rows) :
                Cardinality(KeyPositions(dedup.once, RowKeyOrJson(dedup.rows[j]))) = 1
    /\ dedup.pc = "twice" => dedup.twice = dedup.once

C27_Witness ==
    /\ dedup.pc = "twice"
    /\ dedup.rows = <<Row(1, 0, 0, 0, 0, 1), Row(0, 0, 2, 0, 0, 1), Row(1, 0, 0, 0, 0, 2)>>
    /\ dedup.once = <<Row(1, 0, 0, 0, 0, 1), Row(0, 0, 2, 0, 0, 1)>>

\* the key by the priority universalMessageId, snMsgId, PERMALINK,
\* PERMALINK_1, title||source over the whole row, else the row's JSON text
PriorityKey(r) ==
    IF r.umid # 0 THEN <<r.umid>>
    ELSE IF r.umid1 # 0 THEN <<r.umid1>>
    ELSE IF r.sn # 0 THEN <<r.sn>>
    ELSE IF r.sn1 # 0 THEN <<r.sn1>>
    ELSE IF r.link # 0 THEN <<r.link>>
    ELSE IF r.link1 # 0 THEN <<r.link1>>
    ELSE IF r.title # 0 /\ r.source # 0 THEN <<r.title, r.source>>
    ELSE <<0, 0, r>>

\* C37: the key dedup_rows uses for a row is the first present of
\* universalMessageId, snMsgId, PERMALINK, PERMALINK_1, title||source: a
\* universalMessageId in any message-id object of the row goes before every
\* snMsgId; the serialization of the row is the key only without any of them.
C37_KeyByFixedPriority ==
    dedup.pc \in {"once", "twice"} =>
        \A j \in 1..Len(dedup.rows) : dedup.keys[j] = PriorityKey(dedup.rows[j])

(***************************************************************************)
(* Fetch engine: function_api_payload_from_sprinklr.py                     *)
(*   run_all 115-160, run_with_topic_batches 373-392,                      *)
(*   fetch_sprinklr_rows 440-462                                           *)
(***************************************************************************)
MaxPagesServed == 2     \* pages the API has at most for one query
MaxCap == 2             \* largest max_pages a caller passes
TopicBatchSize == 2     \* the topic_batch_size a caller passes
PAGE_SIZE == 20         \* page_size = int(payload.get("pageSize", 20))

\* max_pages=None
NoCap == -1

\* A TOPIC_IDS value of the payload: a text ("" when n = 0, else "n") or a
\* JSON number n.
IdText(n) == [kind |-> "str", n |-> n]
IdNumber(n) == [kind |-> "int", n |-> n]

\* Python truth of a value: "" and 0 are false
Truthy(v) == v.n # 0

\* str(v)
PyStr(v) == [kind |-> "str", n |-> v.n]

\* _get_topic_ids, line 346: [str(v) for v in vals if v]
RECURSIVE GetTopicIds(_)
GetTopicIds(vals) ==
    IF vals = <<>> THEN <<>>
    ELSE (IF Truthy(Head(vals)) THEN <<PyStr(Head(vals))>> ELSE <<>>)
         \o GetTopicIds(Tail(vals))

\* _chunks: the k-th slice lst[(k-1)*n : k*n], k = 1, 2, ...
Chunk_overlapping(lst, k, n) == SubSeq(lst, Max(1, (k - 1) * n), Min(k * n, Len(lst)))
Chunk(lst, k, n) == SubSeq(lst, (k - 1) * n + 1, Min(k * n, Len(lst)))

\* list(_chunks(lst, n)): range(0, len(lst), n) has ceil(len/n) members
Chunks(lst, n) == [k \in 1..((Len(lst) + n - 1) \div n) |-> Chunk(lst, k, n)]

\* the concatenation of a list of lists
RECURSIVE Flatten(_)
Flatten(ss) == IF ss = <<>> THEN <<>> ELSE Head(ss) \o Flatten(Tail(ss))

\* the value lists a payload's TOPIC_IDS filter may hold (<<>>: no filter)
TopicIdLists ==
    {<<>>,
     <<IdText(1), IdText(2)>>,
     <<IdText(1), IdText(2), IdText(3), IdText(4)>>,
     <<IdText(1), IdText(0), IdText(2), IdNumber(7), IdText(3)>>,
     <<IdText(1), IdText(2), IdText(1), IdText(2)>>}

\* the table rows of a page: n rows with message ids 1..n
Items(n) == [k \in 1..n |-> Row(k, 0, 0, 0, 0, 0)]

\* A response of POST /reports/query: {"data": {"data": items, "hasMore": f}}
\* with the flag present or not, and with a row list or none.
Responses ==
    [hasMore : {"absent", "true", "false"},
     isList : {TRUE},
     items : {Items(5), Items(PAGE_SIZE)}]
    \cup [hasMore : {"absent", "true", "false"}, isList : {FALSE}, items : {<<>>}]

\* run_all lines 131-135: None without the key, else bool(d.get("hasMore"))
HasMoreOf_ignored(resp) == "None"
HasMoreOf(resp) ==
    IF resp.hasMore = "absent" THEN "None"
    ELSE IF resp.hasMore = "true" THEN "True" ELSE "False"

\* run_all line 154: rows is None or len(rows) < page_size
ShortPage_inclusive(resp, page_size) == ~resp.isList \/ Len(resp.items) <= page_size
ShortPage(resp, page_size) == ~resp.isList \/ Len(resp.items) < page_size

\* run_all line 137: max_pages is not None and (i + 1) >= max_pages
CapReached(i, max_pages) == max_pages # NoCap /\ i + 1 >= max_pages

\* run_all lines 137-155: does the loop go on after page i?
Continues(resp, i, max_pages, page_size) ==
    IF CapReached(i, max_pages) THEN FALSE
    ELSE IF HasMoreOf(resp) # "None" THEN HasMoreOf(resp) = "True"
    ELSE ~ShortPage(resp, page_size)

\* run_with_topic_batches line 386: run_all(p2, sleep_sec=sleep_sec), whose
\* max_pages is then the default None
BatchCap(max_pages) == NoCap

\* parse_rows_from_response: the row list, or the response itself as one row
ParseRows(resp) ==
    IF resp.isList THEN resp.items
    ELSE <<Row(0, 0, 0, 0, 0,
               IF resp.hasMore = "absent" THEN -1
               ELSE IF resp.hasMore = "true" THEN -2 ELSE -3)>>

\* gather_rows_from_data
RECURSIVE GatherRows(_)
GatherRows(data) ==
    IF data = <<>> THEN <<>> ELSE ParseRows(Head(data)) \o GatherRows(Tail(data))

\* a response as kept in all_resps, with the number of the run_all call that
\* received it
Received(resp, call) ==
    [call |-> call, hasMore |-> resp.hasMore, isList |-> resp.isList,
     items |-> resp.items]

FetchIdle ==
    [pc |-> "returned", values |-> <<>>, max_pages |-> NoCap, batches |-> <<>>,
     sent |-> <<>>, cap |-> NoCap, i |-> 0, part |-> <<>>, combined |-> <<>>,
     rows |-> <<>>]

\* fetch_sprinklr_rows lines 442-446, run_with_topic_batches lines 378-386:
\* the choice between the two paths and the first run_all call
FetchStart ==
    /\ fetch.pc = "start"
    /\ LET ids == GetTopicIds(fetch.values)
       IN IF ids # <<>> /\ Len(ids) > TopicBatchSize
          THEN fetch' = [fetch EXCEPT
                            !.pc = "paging",
                            !.batches = Chunks(ids, TopicBatchSize),
                            !.sent = <<Chunk(ids, 1, TopicBatchSize)>>,
                            !.cap = BatchCap(fetch.max_pages)]
          ELSE fetch' = [fetch EXCEPT
                            !.pc = "paging",
                            !.sent = <<fetch.values>>,
                            !.cap = fetch.max_pages]
    /\ UNCHANGED offFetch

\* run_all lines 126-158: one turn of the loop.  The API serves at most
\* MaxPagesServed pages, so the last of them cannot ask for another.
RunAllPage ==
    /\ fetch.pc = "paging"
    /\ \E resp \in Responses :
          LET more == Continues(resp, fetch.i, fetch.cap, PAGE_SIZE)
          IN /\ more => fetch.i + 1 < MaxPagesServed
             /\ fetch' = [fetch EXCEPT
                             !.part = Append(@, Received(resp, Len(fetch.sent))),
                             !.i = IF more THEN @ + 1 ELSE @,
                             !.pc = IF more THEN "paging" ELSE "run_all_done"]
    /\ UNCHANGED offFetch

\* run_with_topic_batches lines 383-391: combined.extend(part), then the
\* next batch's run_all, if there is one
BatchDone ==
    /\ fetch.pc = "run_all_done"
    /\ fetch.batches # <<>>
    /\ LET left == Tail(fetch.batches)
       IN fetch' = [fetch EXCEPT
                       !.combined = @ \o fetch.part,
                       !.batches = left,
                       !.part = <<>>,
                       !.i = 0,
                       !.sent = IF left = <<>> THEN @ ELSE Append(@, Head(left)),
                       !.pc = IF left = <<>> THEN "gather" ELSE "paging"]
    /\ UNCHANGED offFetch

\* fetch_sprinklr_rows lines 456-462: gather, dedup, return
FetchReturn ==
    /\ \/ fetch.pc = "gather"
       \/ fetch.pc = "run_all_done" /\ fetch.batches = <<>>
    /\ LET data == IF fetch.pc = "gather" THEN fetch.combined ELSE fetch.part
       IN fetch' = [fetch EXCEPT
                       !.combined = data,
                       !.part = <<>>,
                       !.rows = dedup_rows(GatherRows(data)),
                       !.pc = "returned"]
    /\ UNCHANGED offFetch

NextFetch ==
    \/ FetchStart
    \/ RunAllPage
    \/ BatchDone
    \/ FetchReturn

\* every response received so far, in the order received
AllPages == fetch.combined \o fetch.part

\* the requests the run_all call number c has made
Requests(c) == Cardinality({j \in 1..Len(AllPages) : AllPages[j].call = c})

\* a run_all call is under way or has just ended, with a page received
PageDecided == fetch.pc \in {"paging", "run_all_done"} /\ fetch.part # <<>>

LastPage == fetch.part[Len(fetch.part)]

\* the cap did not end the loop at the last page received
CapNotReached == ~CapReached(Len(fetch.part) - 1, fetch.cap)

C25_CapIsCeiling ==
    fetch.max_pages # NoCap =>
        \A c \in 1..Len(fetch.sent) : Requests(c) <= fetch.max_pages

\* the filter is split into batches
Split == Len(GetTopicIds(fetch.values)) > TopicBatchSize

\* the batches: those whose run_all has been called, then those still to come
AllBatches ==
    fetch.sent \o (IF fetch.batches = <<>> THEN <<>> ELSE Tail(fetch.batches))

Values(s) == {s[j] : j \in 1..Len(s)}

\* C26 (as amended): a split filter is cut into consecutive batches of 1 to
\* batch-size values whose concatenation is the filter's list of non-empty
\* values, each converted to text; run_all is called for one batch after the
\* other, each paged to its end before the next starts, and the pages
\* returned are the batches' pages in batch order.  With at most batch-size
\* such values there is one run_all call, with the payload's own list.
C26_BatchesCoverNormalizedIds ==
    /\ (fetch.pc # "start" /\ Split) =>
          /\ \A k \in 1..Len(AllBatches) :
                /\ Len(AllBatches[k]) \in 1..TopicBatchSize
                /\ k < Len(AllBatches) => Len(AllBatches[k]) = TopicBatchSize
          /\ Flatten(AllBatches) = GetTopicIds(fetch.values)
          /\ Cardinality(Values(GetTopicIds(fetch.values))) = Len(GetTopicIds(fetch.values)) =>
                \A k, l \in 1..Len(AllBatches) :
                    k # l => Values(AllBatches[k]) \cap Values(AllBatches[l]) = {}
          /\ \A j, h \in 1..Len(AllPages) :
                j < h => AllPages[j].call <= AllPages[h].call
          /\ \A c \in 1..(Len(fetch.sent) - 1) : Requests(c) >= 1
          /\ fetch.pc = "returned" =>
                /\ fetch.batches = <<>>
                /\ \A c \in 1..Len(AllBatches) : Requests(c) >= 1
    /\ (fetch.pc # "start" /\ ~Split) =>
          (fetch.sent = <<fetch.values>> /\ fetch.batches = <<>>)

C26_Witness ==
    /\ fetch.pc = "returned"
    /\ fetch.values = <<IdText(1), IdText(0), IdText(2), IdNumber(7), IdText(3)>>
    /\ Len(fetch.sent) = 2
    /\ Requests(1) = 2
    /\ Requests(2) = 1

\* C26 (as claimed): the batches are pairwise disjoint and their
\* concatenation is the original value list.
C26_BatchesPartitionOriginal ==
    (fetch.pc # "start" /\ Split) =>
        /\ Flatten(AllBatches) = fetch.values
        /\ \A k, l \in 1..Len(AllBatches) :
              k # l => Values(AllBatches[k]) \cap Values(AllBatches[l]) = {}

(***************************************************************************)
(* Article extraction: main.py classify_and_extract_article, lines 630-667 *)
(*                                                                         *)
(* A line of the model's answer is a record of its index, label,           *)
(* confidence (in hundredths) and text.  The article is the list of the    *)
(* kept texts with the separator "\n\n" between neighbours.                 *)
(***************************************************************************)
MaxLines == 3

Line(index, label, confidence, text) ==
    [index |-> index, label |-> label, confidence |-> confidence, text |-> text]

TitleText == "Budget 2025"

SampleLines ==
    {Line(0, "body", 95, "The budget passed on Monday."),
     Line(1, "nav", 99, "Home > Politics"),
     Line(1, "body", 89, "It may be revised later."),
     Line(2, "body", 90, "Spending rises by two percent."),
     Line(0, " Body", 99, "Lawmakers voted late at night."),
     Line(1, "body", 99, "Photo: Reuters"),
     Line(0, "title_dup", 99, "Budget 2025"),
     Line(2, "body", 99, "budget 2025.")}

LineLists == UNION {[1..n -> SampleLines] : n \in 0..MaxLines}

\* str(label).strip().lower(), line 648
StripLower(s) == IF s = " Body" THEN "body" ELSE s

\* _norm: NFKC, spaces and punctuation removed, lower case
Norm(s) == IF s \in {"Budget 2025", "budget 2025."} THEN "budget2025" ELSE s

\* _is_noise_line: blank, the title again, or a caption / credit /
\* navigation pattern (no sample text is as short as 3 characters)
IsNoiseLine(txt, title_text) ==
    \/ txt = ""
    \/ (title_text # "" /\ Norm(txt) = Norm(title_text))
    \/ txt \in {"Photo: Reuters"}

\* conf >= 0.9, line 663
Confident_low(conf) == conf >= 80
Confident(conf) == conf >= 90

\* lines 648-665: is the text of line ln appended to `kept`?
Keeps(ln, title_text) ==
    /\ ln.text # ""
    /\ StripLower(ln.label) # "title_dup"
    /\ ~(Norm(title_text) # "" /\ Norm(ln.text) = Norm(title_text))
    /\ StripLower(ln.label) = "body"
    /\ Confident(ln.confidence)
    /\ ~IsNoiseLine(ln.text, title_text)

\* sorted(lines, key=_idx), line 644: a stable sort by index
InsertByIndex(sorted, ln) ==
    LET k == Cardinality({j \in 1..Len(sorted) : sorted[j].index <= ln.index})
    IN SubSeq(sorted, 1, k) \o <<ln>> \o SubSeq(sorted, k + 1, Len(sorted))

RECURSIVE SortedLines(_, _)
SortedLines(lines, n) ==
    IF n = 0 THEN <<>> ELSE InsertByIndex(SortedLines(lines, n - 1), lines[n])

\* "\n\n".join(kept) over the sorted lines from position j on
RECURSIVE JoinKept(_, _, _)
JoinKept(lines, j, title_text) ==
    IF j > Len(lines) THEN <<>>
    ELSE LET tail == JoinKept(lines, j + 1, title_text)
         IN IF ~Keeps(lines[j], title_text) THEN tail
            ELSE IF tail = <<>> THEN <<lines[j].text>>
            ELSE <<lines[j].text, "\n\n">> \o tail

ExtractArticle(lines, title_text) ==
    JoinKept(SortedLines(lines, Len(lines)), 1, title_text)

ClassifyIdle == [pc |-> "returned", lines |-> <<>>, title |-> "", out |-> <<>>]

\* lines 630-667, on the parsed answer of the model
ExtractLines ==
    /\ cls.pc = "parsed"
    /\ cls' = [cls EXCEPT !.pc = "returned",
                          !.out = ExtractArticle(cls.lines, cls.title)]
    /\ UNCHANGED offClassify

NextClassify == ExtractLines

\* the texts of the article, without the separators
KeptTexts == [j \in 1..((Len(cls.out) + 1) \div 2) |-> cls.out[2 * j - 1]]

\* the lines of the answer that carry text t
LinesOf(t) == {j \in 1..Len(cls.lines) : cls.lines[j].text = t}

\* C28: every text of the extracted article is the text of a line labelled
\* body with confidence at least 0.9; the kept texts stand in ascending order
\* of line index with a paragraph break between neighbours; a line with
\* another label is never kept, whatever its confidence: a body line at 0.95
\* and a navigation line at 0.99 give the body line alone.
C28_OnlyConfidentBodyLines ==
    cls.pc = "returned" =>
        /\ \A j \in 1..Len(cls.out) : (j % 2 = 0) <=> (cls.out[j] = "\n\n")
        /\ Len(cls.out) % 2 = 1 \/ cls.out = <<>>
        /\ \A j \in 1..Len(KeptTexts) :
              \E h \in LinesOf(KeptTexts[j]) :
                  /\ cls.lines[h].label \in {"body", " Body"}
                  /\ cls.lines[h].confidence >= 90
        /\ \A j \in 1..(Len(KeptTexts) - 1) :
              \A h \in LinesOf(KeptTexts[j]) :
                  \A g \in LinesOf(KeptTexts[j + 1]) :
                      cls.lines[h].index <= cls.lines[g].index
        /\ \A h \in 1..Len(cls.lines) :
              cls.lines[h].label \notin {"body", " Body"} =>
                  \A j \in 1..Len(KeptTexts) : KeptTexts[j] # cls.lines[h].text
        /\ (\E a, b \in 1..2 :
              /\ Len(cls.lines) = 2
              /\ cls.lines[a] = Line(0, "body", 95, "The budget passed on Monday.")
              /\ cls.lines[b] = Line(1, "nav", 99, "Home > Politics")) =>
              cls.out = <<"The budget passed on Monday.">>

C28_Witness ==
    /\ cls.pc = "returned"
    /\ cls.lines = <<Line(2, "body", 90, "Spending rises by two percent."),
                     Line(1, "nav", 99, "Home > Politics"),
                     Line(0, "body", 95, "The budget passed on Monday.")>>
    /\ cls.out = <<"The budget passed on Monday.", "\n\n",
                   "Spending rises by two percent.">>

(***************************************************************************)
(* Specifications                                                          *)
(***************************************************************************)
InitPartition ==
    /\ envTaskCount \in 0..MaxTasks
    /\ total \in 0..MaxTotal
    /\ slice = NoSlices(envTaskCount)
    /\ tokStore = TokStore0
    /\ issued = 0
    /\ tpc = [p \in Procs |-> "idle"]
    /\ toks = [p \in Procs |-> EmptyDict]
    /\ sv = [p \in Procs |-> NoSave]
    /\ writes = [p \in Procs |-> 0]
    /\ gLock = "free"
    /\ gAge = GENAI_RATE_INTERVAL_SEC
    /\ callAge = GENAI_RATE_INTERVAL_SEC
    /\ gpc = [t \in Threads |-> "idle"]
    /\ attempt = [t \in Threads |-> 0]
    /\ delay = [t \in Threads |-> BackoffStart]
    /\ sleepLeft = [t \in Threads |-> 0]
    /\ ncalls = [t \in Threads |-> 0]
    /\ ngates = [t \in Threads |-> 0]
    /\ nsleeps = [t \in Threads |-> 0]
    /\ lastErr = [t \in Threads |-> ""]
    /\ stampGap = GENAI_RATE_INTERVAL_SEC
    /\ callGap = GENAI_RATE_INTERVAL_SEC
    /\ rows = <<>>
    /\ rpc = [i \in {0} |-> "done"]
    /\ retries = [i \in {0} |-> 0]
    /\ objects = [k \in {} |-> <<>>]
    /\ waitLeft = 0
    /\ napLeft = 0
    /\ found = {}
    /\ polled = FALSE
    /\ warned = FALSE
    /\ finalLocal = <<>>
    /\ notified = 0
    /\ dfLen = 1
    /\ epc = "published"
    /\ futA = [i \in {0} |-> NoFuture]
    /\ article = [i \in {0} |-> NoText]
    /\ sources = [i \in {0} |-> ""]
    /\ todo = {}
    /\ futB = [m \in Maps |-> [i \in {0} |-> NoFuture]]
    /\ jaArticle = [i \in {0} |-> NoText]
    /\ jaTitle = [i \in {0} |-> NoText]
    /\ exFailed = FALSE
    /\ scraped = {}
    /\ trFailed = FALSE
    /\ trText = ""
    /\ trRegion = "asia-northeast1"
    /\ trpc = "returned"
    /\ trCand = 1
    /\ trOut = ""
    /\ trCalls = 0
    /\ trStamps = 0
    /\ req = [p \in Procs |-> NoRequest]
    /\ fetch = FetchIdle
    /\ dedup = DedupIdle
    /\ cls = ClassifyIdle

InitTokens ==
    /\ envTaskCount = 1
    /\ total = 0
    /\ slice = NoSlices(1)
    /\ tokStore = TokStore0
    /\ issued = 0
    /\ tpc = [p \in Procs |-> "idle"]
    /\ toks = [p \in Procs |-> EmptyDict]
    /\ sv = [p \in Procs |-> NoSave]
    /\ writes = [p \in Procs |-> 0]
    /\ gLock = "free"
    /\ gAge = GENAI_RATE_INTERVAL_SEC
    /\ callAge = GENAI_RATE_INTERVAL_SEC
    /\ gpc = [t \in Threads |-> "idle"]
    /\ attempt = [t \in Threads |-> 0]
    /\ delay = [t \in Threads |-> BackoffStart]
    /\ sleepLeft = [t \in Threads |-> 0]
    /\ ncalls = [t \in Threads |-> 0]
    /\ ngates = [t \in Threads |-> 0]
    /\ nsleeps = [t \in Threads |-> 0]
    /\ lastErr = [t \in Threads |-> ""]
    /\ stampGap = GENAI_RATE_INTERVAL_SEC
    /\ callGap = GENAI_RATE_INTERVAL_SEC
    /\ rows = <<>>
    /\ rpc = [i \in {0} |-> "done"]
    /\ retries = [i \in {0} |-> 0]
    /\ objects = [k \in {} |-> <<>>]
    /\ waitLeft = 0
    /\ napLeft = 0
    /\ found = {}
    /\ polled = FALSE
    /\ warned = FALSE
    /\ finalLocal = <<>>
    /\ notified = 0
    /\ dfLen = 1
    /\ epc = "published"
    /\ futA = [i \in {0} |-> NoFuture]
    /\ article = [i \in {0} |-> NoText]
    /\ sources = [i \in {0} |-> ""]
    /\ todo = {}
    /\ futB = [m \in Maps |-> [i \in {0} |-> NoFuture]]
    /\ jaArticle = [i \in {0} |-> NoText]
    /\ jaTitle = [i \in {0} |-> NoText]
    /\ exFailed = FALSE
    /\ scraped = {}
    /\ trFailed = FALSE
    /\ trText = ""
    /\ trRegion = "asia-northeast1"
    /\ trpc = "returned"
    /\ trCand = 1
    /\ trOut = ""
    /\ trCalls = 0
    /\ trStamps = 0
    /\ req = [p \in Procs |-> NoRequest]
    /\ fetch = FetchIdle
    /\ dedup = DedupIdle
    /\ cls = ClassifyIdle

InitGenai ==
    /\ envTaskCount = 1
    /\ total = 0
    /\ slice = NoSlices(1)
    /\ tokStore = TokStore0
    /\ issued = 0
    /\ tpc = [p \in Procs |-> "idle"]
    /\ toks = [p \in Procs |-> EmptyDict]
    /\ sv = [p \in Procs |-> NoSave]
    /\ writes = [p \in Procs |-> 0]
    /\ gLock = "free"
    /\ gAge = GENAI_RATE_INTERVAL_SEC
    /\ callAge = GENAI_RATE_INTERVAL_SEC
    /\ gpc = [t \in Threads |-> "idle"]
    /\ attempt = [t \in Threads |-> 0]
    /\ delay = [t \in Threads |-> BackoffStart]
    /\ sleepLeft = [t \in Threads |-> 0]
    /\ ncalls = [t \in Threads |-> 0]
    /\ ngates = [t \in Threads |-> 0]
    /\ nsleeps = [t \in Threads |-> 0]
    /\ lastErr = [t \in Threads |-> ""]
    /\ stampGap = GENAI_RATE_INTERVAL_SEC
    /\ callGap = GENAI_RATE_INTERVAL_SEC
    /\ rows = <<>>
    /\ rpc = [i \in {0} |-> "done"]
    /\ retries = [i \in {0} |-> 0]
    /\ objects = [k \in {} |-> <<>>]
    /\ waitLeft = 0
    /\ napLeft = 0
    /\ found = {}
    /\ polled = FALSE
    /\ warned = FALSE
    /\ finalLocal = <<>>
    /\ notified = 0
    /\ dfLen = 1
    /\ epc = "published"
    /\ futA = [i \in {0} |-> NoFuture]
    /\ article = [i \in {0} |-> NoText]
    /\ sources = [i \in {0} |-> ""]
    /\ todo = {}
    /\ futB = [m \in Maps |-> [i \in {0} |-> NoFuture]]
    /\ jaArticle = [i \in {0} |-> NoText]
    /\ jaTitle = [i \in {0} |-> NoText]
    /\ exFailed = FALSE
    /\ scraped = {}
    /\ trFailed = FALSE
    /\ trText = ""
    /\ trRegion = "asia-northeast1"
    /\ trpc = "returned"
    /\ trCand = 1
    /\ trOut = ""
    /\ trCalls = 0
    /\ trStamps = 0
    /\ req = [p \in Procs |-> NoRequest]
    /\ fetch = FetchIdle
    /\ dedup = DedupIdle
    /\ cls = ClassifyIdle

InitRun ==
    /\ envTaskCount \in 1..MaxRunTasks
    /\ total \in 0..MaxRows
    /\ slice = NoSlices(envTaskCount)
    /\ tokStore = TokStore0
    /\ issued = 0
    /\ tpc = [p \in Procs |-> "idle"]
    /\ toks = [p \in Procs |-> EmptyDict]
    /\ sv = [p \in Procs |-> NoSave]
    /\ writes = [p \in Procs |-> 0]
    /\ gLock = "free"
    /\ gAge = GENAI_RATE_INTERVAL_SEC
    /\ callAge = GENAI_RATE_INTERVAL_SEC
    /\ gpc = [t \in Threads |-> "idle"]
    /\ attempt = [t \in Threads |-> 0]
    /\ delay = [t \in Threads |-> BackoffStart]
    /\ sleepLeft = [t \in Threads |-> 0]
    /\ ncalls = [t \in Threads |-> 0]
    /\ ngates = [t \in Threads |-> 0]
    /\ nsleeps = [t \in Threads |-> 0]
    /\ lastErr = [t \in Threads |-> ""]
    /\ stampGap = GENAI_RATE_INTERVAL_SEC
    /\ callGap = GENAI_RATE_INTERVAL_SEC
    /\ rows \in [0..(total - 1) -> CellValues]
    /\ rpc = [i \in 0..(envTaskCount - 1) |-> "start"]
    /\ retries = [i \in 0..(envTaskCount - 1) |-> 0]
    /\ objects = [k \in {} |-> <<>>]
    /\ waitLeft = 0
    /\ napLeft = 0
    /\ found = {}
    /\ polled = FALSE
    /\ warned = FALSE
    /\ finalLocal = <<>>
    /\ notified = 0
    /\ dfLen = 1
    /\ epc = "published"
    /\ futA = [i \in {0} |-> NoFuture]
    /\ article = [i \in {0} |-> NoText]
    /\ sources = [i \in {0} |-> ""]
    /\ todo = {}
    /\ futB = [m \in Maps |-> [i \in {0} |-> NoFuture]]
    /\ jaArticle = [i \in {0} |-> NoText]
    /\ jaTitle = [i \in {0} |-> NoText]
    /\ exFailed = FALSE
    /\ scraped = {}
    /\ trFailed = FALSE
    /\ trText = ""
    /\ trRegion = "asia-northeast1"
    /\ trpc = "returned"
    /\ trCand = 1
    /\ trOut = ""
    /\ trCalls = 0
    /\ trStamps = 0
    /\ req = [p \in Procs |-> NoRequest]
    /\ fetch = FetchIdle
    /\ dedup = DedupIdle
    /\ cls = ClassifyIdle

\* the run as InitRun starts it, every title cell being "Budget 2025": the
\* cell texts play no part in the wait loop
InitRunLive ==
    /\ envTaskCount \in 1..MaxRunTasks
    /\ total \in 0..MaxRows
    /\ slice = NoSlices(envTaskCount)
    /\ tokStore = TokStore0
    /\ issued = 0
    /\ tpc = [p \in Procs |-> "idle"]
    /\ toks = [p \in Procs |-> EmptyDict]
    /\ sv = [p \in Procs |-> NoSave]
    /\ writes = [p \in Procs |-> 0]
    /\ gLock = "free"
    /\ gAge = GENAI_RATE_INTERVAL_SEC
    /\ callAge = GENAI_RATE_INTERVAL_SEC
    /\ gpc = [t \in Threads |-> "idle"]
    /\ attempt = [t \in Threads |-> 0]
    /\ delay = [t \in Threads |-> BackoffStart]
    /\ sleepLeft = [t \in Threads |-> 0]
    /\ ncalls = [t \in Threads |-> 0]
    /\ ngates = [t \in Threads |-> 0]
    /\ nsleeps = [t \in Threads |-> 0]
    /\ lastErr = [t \in Threads |-> ""]
    /\ stampGap = GENAI_RATE_INTERVAL_SEC
    /\ callGap = GENAI_RATE_INTERVAL_SEC
    /\ rows \in [0..(total - 1) -> {"Budget 2025"}]
    /\ rpc = [i \in 0..(envTaskCount - 1) |-> "start"]
    /\ retries = [i \in 0..(envTaskCount - 1) |-> 0]
    /\ objects = [k \in {} |-> <<>>]
    /\ waitLeft = 0
    /\ napLeft = 0
    /\ found = {}
    /\ polled = FALSE
    /\ warned = FALSE
    /\ finalLocal = <<>>
    /\ notified = 0
    /\ dfLen = 1
    /\ epc = "published"
    /\ futA = [i \in {0} |-> NoFuture]
    /\ article = [i \in {0} |-> NoText]
    /\ sources = [i \in {0} |-> ""]
    /\ todo = {}
    /\ futB = [m \in Maps |-> [i \in {0} |-> NoFuture]]
    /\ jaArticle = [i \in {0} |-> NoText]
    /\ jaTitle = [i \in {0} |-> NoText]
    /\ exFailed = FALSE
    /\ scraped = {}
    /\ trFailed = FALSE
    /\ trText = ""
    /\ trRegion = "asia-northeast1"
    /\ trpc = "returned"
    /\ trCand = 1
    /\ trOut = ""
    /\ trCalls = 0
    /\ trStamps = 0
    /\ req = [p \in Procs |-> NoRequest]
    /\ fetch = FetchIdle
    /\ dedup = DedupIdle
    /\ cls = ClassifyIdle

InitEnrich ==
    /\ envTaskCount = 1
    /\ total = 0
    /\ slice = NoSlices(1)
    /\ tokStore = TokStore0
    /\ issued = 0
    /\ tpc = [p \in Procs |-> "idle"]
    /\ toks = [p \in Procs |-> EmptyDict]
    /\ sv = [p \in Procs |-> NoSave]
    /\ writes = [p \in Procs |-> 0]
    /\ gLock = "free"
    /\ gAge = GENAI_RATE_INTERVAL_SEC
    /\ callAge = GENAI_RATE_INTERVAL_SEC
    /\ gpc = [t \in Threads |-> "idle"]
    /\ attempt = [t \in Threads |-> 0]
    /\ delay = [t \in Threads |-> BackoffStart]
    /\ sleepLeft = [t \in Threads |-> 0]
    /\ ncalls = [t \in Threads |-> 0]
    /\ ngates = [t \in Threads |-> 0]
    /\ nsleeps = [t \in Threads |-> 0]
    /\ lastErr = [t \in Threads |-> ""]
    /\ stampGap = GENAI_RATE_INTERVAL_SEC
    /\ callGap = GENAI_RATE_INTERVAL_SEC
    /\ rows = <<>>
    /\ rpc = [i \in {0} |-> "done"]
    /\ retries = [i \in {0} |-> 0]
    /\ objects = [k \in {} |-> <<>>]
    /\ waitLeft = 0
    /\ napLeft = 0
    /\ found = {}
    /\ polled = FALSE
    /\ warned = FALSE
    /\ finalLocal = <<>>
    /\ notified = 0
    /\ dfLen \in 1..MaxEnrichRows
    /\ epc = "classify"
    /\ futA \in [0..(dfLen - 1) ->
                  [st : {"pending"},
                   arg : {NoText} \cup {Message(i) : i \in 0..(MaxEnrichRows - 1)}]]
    /\ \A i \in 0..(dfLen - 1) : futA[i].arg \in {NoText, Message(i)}
    /\ article = [i \in 0..(dfLen - 1) |-> NoText]
    /\ sources = [i \in 0..(dfLen - 1) |-> ""]
    /\ todo = {}
    /\ futB = [m \in Maps |-> [i \in 0..(dfLen - 1) |-> NoFuture]]
    /\ jaArticle = [i \in 0..(dfLen - 1) |-> NoText]
    /\ jaTitle = [i \in 0..(dfLen - 1) |-> NoText]
    /\ exFailed = FALSE
    /\ scraped = {}
    /\ trFailed = FALSE
    /\ trText = ""
    /\ trRegion = "asia-northeast1"
    /\ trpc = "returned"
    /\ trCand = 1
    /\ trOut = ""
    /\ trCalls = 0
    /\ trStamps = 0
    /\ req = [p \in Procs |-> NoRequest]
    /\ fetch = FetchIdle
    /\ dedup = DedupIdle
    /\ cls = ClassifyIdle

InitTranslate ==
    /\ envTaskCount = 1
    /\ total = 0
    /\ slice = NoSlices(1)
    /\ tokStore = TokStore0
    /\ issued = 0
    /\ tpc = [p \in Procs |-> "idle"]
    /\ toks = [p \in Procs |-> EmptyDict]
    /\ sv = [p \in Procs |-> NoSave]
    /\ writes = [p \in Procs |-> 0]
    /\ gLock = "free"
    /\ gAge = GENAI_RATE_INTERVAL_SEC
    /\ callAge = GENAI_RATE_INTERVAL_SEC
    /\ gpc = [t \in Threads |-> "idle"]
    /\ attempt = [t \in Threads |-> 0]
    /\ delay = [t \in Threads |-> BackoffStart]
    /\ sleepLeft = [t \in Threads |-> 0]
    /\ ncalls = [t \in Threads |-> 0]
    /\ ngates = [t \in Threads |-> 0]
    /\ nsleeps = [t \in Threads |-> 0]
    /\ lastErr = [t \in Threads |-> ""]
    /\ stampGap = GENAI_RATE_INTERVAL_SEC
    /\ callGap = GENAI_RATE_INTERVAL_SEC
    /\ rows = <<>>
    /\ rpc = [i \in {0} |-> "done"]
    /\ retries = [i \in {0} |-> 0]
    /\ objects = [k \in {} |-> <<>>]
    /\ waitLeft = 0
    /\ napLeft = 0
    /\ found = {}
    /\ polled = FALSE
    /\ warned = FALSE
    /\ finalLocal = <<>>
    /\ notified = 0
    /\ dfLen = 1
    /\ epc = "published"
    /\ futA = [i \in {0} |-> NoFuture]
    /\ article = [i \in {0} |-> NoText]
    /\ sources = [i \in {0} |-> ""]
    /\ todo = {}
    /\ futB = [m \in Maps |-> [i \in {0} |-> NoFuture]]
    /\ jaArticle = [i \in {0} |-> NoText]
    /\ jaTitle = [i \in {0} |-> NoText]
    /\ exFailed = FALSE
    /\ scraped = {}
    /\ trFailed = FALSE
    /\ trText \in Texts
    /\ trRegion \in {"asia-northeast1", "europe-west1"}
    /\ trpc = "entry"
    /\ trCand = 1
    /\ trOut = ""
    /\ trCalls = 0
    /\ trStamps = 0
    /\ req = [p \in Procs |-> NoRequest]
    /\ fetch = FetchIdle
    /\ dedup = DedupIdle
    /\ cls = ClassifyIdle

InitFetch ==
    /\ envTaskCount = 1
    /\ total = 0
    /\ slice = NoSlices(1)
    /\ tokStore = TokStore0
    /\ issued = 0
    /\ tpc = [p \in Procs |-> "idle"]
    /\ toks = [p \in Procs |-> EmptyDict]
    /\ sv = [p \in Procs |-> NoSave]
    /\ writes = [p \in Procs |-> 0]
    /\ gLock = "free"
    /\ gAge = GENAI_RATE_INTERVAL_SEC
    /\ callAge = GENAI_RATE_INTERVAL_SEC
    /\ gpc = [t \in Threads |-> "idle"]
    /\ attempt = [t \in Threads |-> 0]
    /\ delay = [t \in Threads |-> BackoffStart]
    /\ sleepLeft = [t \in Threads |-> 0]
    /\ ncalls = [t \in Threads |-> 0]
    /\ ngates = [t \in Threads |-> 0]
    /\ nsleeps = [t \in Threads |-> 0]
    /\ lastErr = [t \in Threads |-> ""]
    /\ stampGap = GENAI_RATE_INTERVAL_SEC
    /\ callGap = GENAI_RATE_INTERVAL_SEC
    /\ rows = <<>>
    /\ rpc = [i \in {0} |-> "done"]
    /\ retries = [i \in {0} |-> 0]
    /\ objects = [k \in {} |-> <<>>]
    /\ waitLeft = 0
    /\ napLeft = 0
    /\ found = {}
    /\ polled = FALSE
    /\ warned = FALSE
    /\ finalLocal = <<>>
    /\ notified = 0
    /\ dfLen = 1
    /\ epc = "published"
    /\ futA = [i \in {0} |-> NoFuture]
    /\ article = [i \in {0} |-> NoText]
    /\ sources = [i \in {0} |-> ""]
    /\ todo = {}
    /\ futB = [m \in Maps |-> [i \in {0} |-> NoFuture]]
    /\ jaArticle = [i \in {0} |-> NoText]
    /\ jaTitle = [i \in {0} |-> NoText]
    /\ exFailed = FALSE
    /\ scraped = {}
    /\ trFailed = FALSE
    /\ trText = ""
    /\ trRegion = "asia-northeast1"
    /\ trpc = "returned"
    /\ trCand = 1
    /\ trOut = ""
    /\ trCalls = 0
    /\ trStamps = 0
    /\ req = [p \in Procs |-> NoRequest]
    /\ fetch \in {[FetchIdle EXCEPT !.pc = "start", !.values = v, !.max_pages = m] :
                    v \in TopicIdLists, m \in {NoCap} \cup (0..MaxCap)}
    /\ dedup = DedupIdle
    /\ cls = ClassifyIdle

InitDedup ==
    /\ envTaskCount = 1
    /\ total = 0
    /\ slice = NoSlices(1)
    /\ tokStore = TokStore0
    /\ issued = 0
    /\ tpc = [p \in Procs |-> "idle"]
    /\ toks = [p \in Procs |-> EmptyDict]
    /\ sv = [p \in Procs |-> NoSave]
    /\ writes = [p \in Procs |-> 0]
    /\ gLock = "free"
    /\ gAge = GENAI_RATE_INTERVAL_SEC
    /\ callAge = GENAI_RATE_INTERVAL_SEC
    /\ gpc = [t \in Threads |-> "idle"]
    /\ attempt = [t \in Threads |-> 0]
    /\ delay = [t \in Threads |-> BackoffStart]
    /\ sleepLeft = [t \in Threads |-> 0]
    /\ ncalls = [t \in Threads |-> 0]
    /\ ngates = [t \in Threads |-> 0]
    /\ nsleeps = [t \in Threads |-> 0]
    /\ lastErr = [t \in Threads |-> ""]
    /\ stampGap = GENAI_RATE_INTERVAL_SEC
    /\ callGap = GENAI_RATE_INTERVAL_SEC
    /\ rows = <<>>
    /\ rpc = [i \in {0} |-> "done"]
    /\ retries = [i \in {0} |-> 0]
    /\ objects = [k \in {} |-> <<>>]
    /\ waitLeft = 0
    /\ napLeft = 0
    /\ found = {}
    /\ polled = FALSE
    /\ warned = FALSE
    /\ finalLocal = <<>>
    /\ notified = 0
    /\ dfLen = 1
    /\ epc = "published"
    /\ futA = [i \in {0} |-> NoFuture]
    /\ article = [i \in {0} |-> NoText]
    /\ sources = [i \in {0} |-> ""]
    /\ todo = {}
    /\ futB = [m \in Maps |-> [i \in {0} |-> NoFuture]]
    /\ jaArticle = [i \in {0} |-> NoText]
    /\ jaTitle = [i \in {0} |-> NoText]
    /\ exFailed = FALSE
    /\ scraped = {}
    /\ trFailed = FALSE
    /\ trText = ""
    /\ trRegion = "asia-northeast1"
    /\ trpc = "returned"
    /\ trCand = 1
    /\ trOut = ""
    /\ trCalls = 0
    /\ trStamps = 0
    /\ req = [p \in Procs |-> NoRequest]
    /\ fetch = FetchIdle
    /\ dedup \in {[DedupIdle EXCEPT !.pc = "input", !.rows = rs] : rs \in RowLists}
    /\ cls = ClassifyIdle

InitClassify ==
    /\ envTaskCount = 1
    /\ total = 0
    /\ slice = NoSlices(1)
    /\ tokStore = TokStore0
    /\ issued = 0
    /\ tpc = [p \in Procs |-> "idle"]
    /\ toks = [p \in Procs |-> EmptyDict]
    /\ sv = [p \in Procs |-> NoSave]
    /\ writes = [p \in Procs |-> 0]
    /\ gLock = "free"
    /\ gAge = GENAI_RATE_INTERVAL_SEC
    /\ callAge = GENAI_RATE_INTERVAL_SEC
    /\ gpc = [t \in Threads |-> "idle"]
    /\ attempt = [t \in Threads |-> 0]
    /\ delay = [t \in Threads |-> BackoffStart]
    /\ sleepLeft = [t \in Threads |-> 0]
    /\ ncalls = [t \in Threads |-> 0]
    /\ ngates = [t \in Threads |-> 0]
    /\ nsleeps = [t \in Threads |-> 0]
    /\ lastErr = [t \in Threads |-> ""]
    /\ stampGap = GENAI_RATE_INTERVAL_SEC
    /\ callGap = GENAI_RATE_INTERVAL_SEC
    /\ rows = <<>>
    /\ rpc = [i \in {0} |-> "done"]
    /\ retries = [i \in {0} |-> 0]
    /\ objects = [k \in {} |-> <<>>]
    /\ waitLeft = 0
    /\ napLeft = 0
    /\ found = {}
    /\ polled = FALSE
    /\ warned = FALSE
    /\ finalLocal = <<>>
    /\ notified = 0
    /\ dfLen = 1
    /\ epc = "published"
    /\ futA = [i \in {0} |-> NoFuture]
    /\ article = [i \in {0} |-> NoText]
    /\ sources = [i \in {0} |-> ""]
    /\ todo = {}
    /\ futB = [m \in Maps |-> [i \in {0} |-> NoFuture]]
    /\ jaArticle = [i \in {0} |-> NoText]
    /\ jaTitle = [i \in {0} |-> NoText]
    /\ exFailed = FALSE
    /\ scraped = {}
    /\ trFailed = FALSE
    /\ trText = ""
    /\ trRegion = "asia-northeast1"
    /\ trpc = "returned"
    /\ trCand = 1
    /\ trOut = ""
    /\ trCalls = 0
    /\ trStamps = 0
    /\ req = [p \in Procs |-> NoRequest]
    /\ fetch = FetchIdle
    /\ dedup = DedupIdle
    /\ cls \in {[ClassifyIdle EXCEPT !.pc = "parsed", !.lines = ls, !.title = TitleText] :
                  ls \in LineLists}

SpecPartition == InitPartition /\ [][NextPartition]_vars

SpecTokens == InitTokens /\ [][NextTokens]_vars

SpecGenai == InitGenai /\ [][NextGenai]_vars

SpecRun == InitRun /\ [][NextRun]_vars

\* the run with a clock that advances and a task 0 whose listings, uploads
\* and requests return; the other tasks and the job runner may stall
SpecRunLive ==
    /\ InitRunLive
    /\ [][NextRun]_vars
    /\ WF_vars(RunTick)
    /\ WF_vars(Poll)
    /\ WF_vars(Timeout)
    /\ WF_vars(MergeShards)
    /\ WF_vars(UploadFinal)
    /\ WF_vars(Notify)

SpecEnrich == InitEnrich /\ [][NextEnrich]_vars

SpecTranslate == InitTranslate /\ [][NextTranslate]_vars

SpecFetch == InitFetch /\ [][NextFetch]_vars

SpecDedup == InitDedup /\ [][NextDedup]_vars

SpecClassify == InitClassify /\ [][NextClassify]_vars

====
